------------------------ MODULE OutboundDeliveryProofs ------------------------
(***************************************************************************)
(* Proofs about OutboundDelivery for any number of messages, workers and   *)
(* publishers, any retry policy and any number of faults.                  *)
(***************************************************************************)
EXTENDS OutboundDelivery, FiniteSetTheorems, TLAPS

USE DEF messageVars, outboxVars, workerVars, budgetVars, historyVars

(* The next attempt of a job is a job of the same message and class.       *)
LEMMA NextAttempt ==
    ASSUME NEW j \in Jobs, j.attempt < MaxRetries
    PROVE  /\ [j EXCEPT !.attempt = @ + 1] \in Jobs
           /\ [j EXCEPT !.attempt = @ + 1].msg = j.msg
           /\ [j EXCEPT !.attempt = @ + 1].cls = j.cls
  BY PipelineAssumption DEF Jobs

LEMMA JobFields ==
    ASSUME NEW m \in Messages
    PROVE  /\ FirstJob(m) \in Jobs /\ FirstJob(m).msg = m
           /\ LegacyJob(m) \in Jobs /\ LegacyJob(m).msg = m
  BY PipelineAssumption DEF Jobs, FirstJob, LegacyJob

LEMMA NoneIsNoJob == None \notin Jobs
  BY PipelineAssumption DEF Jobs

-----------------------------------------------------------------------------
(* Types, together with the facts about handlers they depend on.           *)
Typed == TypeOK /\ HandlerInv

LEMMA InitTyped == Init => Typed
  BY PipelineAssumption, NoneIsNoJob DEF Init, Typed, TypeOK, HandlerInv, Lease, Phase, PC, Status

LEMMA CreateTyped ==
    ASSUME Typed, NEW m \in Messages, Create(m)
    PROVE  Typed'
  BY DEF Typed, TypeOK, HandlerInv, Create, Status, Msg

LEMMA PublisherTyped ==
    ASSUME Typed, NEW p \in Publishers, PublisherStep(p)
    PROVE  Typed'
<1> USE DEF Typed, TypeOK, HandlerInv, Msg, Lease, Phase
<1>1. CASE ClaimEvents(p)
  BY <1>1 DEF ClaimEvents
<1>2. CASE \E m \in Messages : Publish(p, m)
  BY <1>2, JobFields DEF Publish
<1>3. CASE \E m \in Messages : PublishFails(p, m)
  BY <1>3 DEF PublishFails
<1>4. CASE \E m \in Messages : PublishUnconfirmed(p, m)
  BY <1>4, JobFields DEF PublishUnconfirmed, Fault
<1>5. CASE MarkPublished(p)
  BY <1>5 DEF MarkPublished, NextEvent
<1>6. CASE MarkPublishedFails(p)
  BY <1>6 DEF MarkPublishedFails, Fault
<1>7. CASE ReleaseEvent(p)
  BY <1>7 DEF ReleaseEvent, NextEvent
<1>8. CASE FlushAborts(p)
  BY <1>8 DEF FlushAborts, Fault
<1> QED
  BY <1>1, <1>2, <1>3, <1>4, <1>5, <1>6, <1>7, <1>8 DEF PublisherStep

LEMMA DeliverTyped ==
    ASSUME Typed, NEW w \in Workers, NEW j \in Jobs, Deliver(w, j)
    PROVE  Typed'
  BY DEF Typed, TypeOK, HandlerInv, Deliver, Goto, Msg, PC

(* A step that only moves a handler to another label.                      *)
LEMMA GotoTyped ==
    ASSUME Typed, NEW w \in Workers, NEW label \in PC \ {"idle", "record"},
           pc[w] # "idle", held[w] # 0 => label = "markFailed",
           Goto(w, label),
           UNCHANGED <<messageVars, outboxVars, queue, job, held, channel, accepted,
                       historyVars>>,
           faults' \in Nat, disconnects' \in Nat
    PROVE  Typed'
  BY DEF Typed, TypeOK, HandlerInv, Goto, Msg

LEMMA HandlerTyped ==
    ASSUME Typed, NEW w \in Workers, HandlerStep(w)
    PROVE  Typed'
<1>1. /\ Typed /\ TypeOK /\ HandlerInv
      /\ pc[w] # "idle" => job[w] \in Jobs /\ Msg(w) \in Messages
  BY DEF Typed, TypeOK, HandlerInv, Msg, Jobs
<1>2. faults \in Nat /\ disconnects \in Nat
  BY <1>1 DEF TypeOK
<1> USE DEF Goto, PC
<1>3. CASE ClaimMessage(w)
  <2>1. CASE Claimable(Msg(w))
    BY <1>1, <1>3, <2>1 DEF Typed, TypeOK, HandlerInv, ClaimMessage, Msg, Lease, Status
  <2>2. CASE ~Claimable(Msg(w))
    BY <1>1, <1>3, <2>2 DEF Typed, TypeOK, HandlerInv, ClaimMessage, Msg
  <2> QED
    BY <2>1, <2>2
<1>4. CASE ReloadLost(w)
  BY <1>1, <1>2, <1>4, GotoTyped DEF ReloadLost, HandlerInv
<1>5. CASE ReloadWon(w)
  BY <1>1, <1>2, <1>5, GotoTyped DEF ReloadWon, HandlerInv
<1>6. CASE ResolveSender(w)
  BY <1>1, <1>2, <1>6, GotoTyped DEF ResolveSender, HandlerInv
<1>7. CASE WaitForOutboundSlot(w)
  BY <1>1, <1>2, <1>7, GotoTyped DEF WaitForOutboundSlot, HandlerInv
<1>8. CASE SendAccepted(w)
  BY <1>1, <1>8 DEF Typed, TypeOK, HandlerInv, SendAccepted, Msg
<1>9. CASE SendAcceptedWithoutId(w)
  BY <1>1, <1>9 DEF Typed, TypeOK, HandlerInv, SendAcceptedWithoutId, Msg, Fault
<1>10. CASE SendAnswerLost(w)
  BY <1>1, <1>10 DEF Typed, TypeOK, HandlerInv, SendAnswerLost, Msg, Fault
<1>11. CASE SendRefused(w)
  BY <1>1, <1>2, <1>11, GotoTyped DEF SendRefused, HandlerInv
<1>12. CASE RecordSubmitted(w)
  BY <1>1, <1>12 DEF Typed, TypeOK, HandlerInv, RecordSubmitted, EndAttempt, Msg, Lease, Status
<1>13. CASE RecordFails(w)
  <2>1. faults' \in Nat /\ disconnects' \in Nat
    BY <1>2, <1>13 DEF RecordFails, Fault
  <2> QED
    BY <1>1, <1>13, <2>1, GotoTyped DEF RecordFails
<1>14. CASE MarkRetryableFailure(w)
  BY <1>1, <1>14 DEF Typed, TypeOK, HandlerInv, MarkRetryableFailure, EndAttempt, Msg, Lease, Status
<1>15. CASE MarkFailed(w)
  BY <1>1, <1>15 DEF Typed, TypeOK, HandlerInv, MarkFailed, EndAttempt, Msg, Lease, Status
<1>16. CASE MarkRetryExhausted(w)
  BY <1>1, <1>2, <1>16, GotoTyped DEF MarkRetryExhausted, HandlerInv
<1>17. CASE ScheduleRetry(w)
  <2>1. [job[w] EXCEPT !.attempt = @ + 1] \in Jobs
    BY <1>1, <1>17, NextAttempt DEF ScheduleRetry
  <2>2. queue' \in [Jobs -> Nat]
    BY <1>1, <1>17, <2>1 DEF ScheduleRetry, TypeOK
  <2> QED
    BY <1>1, <1>17, <2>2 DEF Typed, TypeOK, HandlerInv, ScheduleRetry, Msg
<1>18. CASE RetriesExhausted(w)
  BY <1>1, <1>2, <1>18, GotoTyped DEF RetriesExhausted, HandlerInv
<1>19. CASE ScheduleDeferredRetry(w)
  BY <1>1, <1>19 DEF Typed, TypeOK, HandlerInv, ScheduleDeferredRetry, Msg
<1>20. CASE PublishDeadLetter(w)
  BY <1>1, <1>2, <1>20, GotoTyped DEF PublishDeadLetter, HandlerInv
<1>21. CASE Ack(w)
  BY <1>1, <1>21 DEF Typed, TypeOK, HandlerInv, Ack, Msg
<1>22. CASE ChannelClosedCrash(w)
  BY <1>1, <1>22 DEF Typed, TypeOK, HandlerInv, ChannelClosedCrash, DropHandler, Msg
<1> QED
  BY <1>3, <1>4, <1>5, <1>6, <1>7, <1>8, <1>9, <1>10, <1>11, <1>12, <1>13, <1>14,
     <1>15, <1>16, <1>17, <1>18, <1>19, <1>20, <1>21, <1>22 DEF HandlerStep

LEMMA InterruptionTyped ==
    ASSUME Typed, NEW w \in Workers, Interruption(w)
    PROVE  Typed'
<1> USE DEF Typed, TypeOK, HandlerInv, Msg, Goto, PC
<1>1. CASE HandlerThrows(w)
  BY <1>1 DEF HandlerThrows, DropHandler, Fault
<1>2. CASE Crash(w)
  BY <1>2 DEF Crash, DropHandler, Fault
<1>3. CASE Restart(w)
  BY <1>3 DEF Restart
<1>4. CASE ConnectionClosed(w)
  <2>1. CASE pc[w] = "idle"
    BY <1>4, <2>1 DEF ConnectionClosed
  <2>2. CASE pc[w] # "idle"
    <3>1. \A v \in Workers : pc[v] # "idle" => job[v] \in Jobs /\ job[v].msg \in Messages
      BY DEF Jobs
    <3>2. TypeOK'
      <4>1. queue' \in [Jobs -> Nat]
        BY <1>4, <2>2, <3>1 DEF ConnectionClosed
      <4>2. severed' \in [Messages -> BOOLEAN]
        BY <1>4, <2>2, <3>1 DEF ConnectionClosed
      <4>3. disconnects' \in Nat
        BY <1>4 DEF ConnectionClosed
      <4> QED
        BY <1>4, <2>2, <4>1, <4>2, <4>3 DEF ConnectionClosed
    <3>3. HandlerInv'
      BY <1>4, <2>2, <3>1 DEF ConnectionClosed
    <3> QED
      BY <3>2, <3>3
  <2> QED
    BY <2>1, <2>2
<1> QED
  BY <1>1, <1>2, <1>3, <1>4 DEF Interruption

LEMMA NextTyped ==
    ASSUME Typed, [Next]_vars
    PROVE  Typed'
<1>1. CASE UNCHANGED vars
  BY <1>1 DEF vars, Typed, TypeOK, HandlerInv, Msg
<1>2. CASE \E m \in Messages : Create(m)
  BY <1>2, CreateTyped
<1>3. CASE \E m \in Messages : EventLeaseExpires(m)
  BY <1>3 DEF EventLeaseExpires, Typed, TypeOK, HandlerInv, Msg, Lease
<1>4. CASE \E m \in Messages : LeaseExpires(m)
  BY <1>4 DEF LeaseExpires, Typed, TypeOK, HandlerInv, Msg, Lease
<1>5. CASE \E m \in Messages, s \in ReceiptStatus : ApplyStatus(m, s)
  BY <1>5 DEF ApplyStatus, Typed, TypeOK, HandlerInv, Msg, ReceiptStatus, Status
<1>6. CASE \E p \in Publishers : PublisherStep(p)
  BY <1>6, PublisherTyped
<1>7. CASE \E w \in Workers, j \in Jobs : Deliver(w, j)
  BY <1>7, DeliverTyped
<1>8. CASE \E w \in Workers : HandlerStep(w)
  BY <1>8, HandlerTyped
<1>9. CASE \E w \in Workers : Interruption(w)
  BY <1>9, InterruptionTyped
<1> QED
  BY <1>1, <1>2, <1>3, <1>4, <1>5, <1>6, <1>7, <1>8, <1>9 DEF Next

(* Every variable keeps its type, and a worker has a delivery exactly      *)
(* while its handler runs.                                                 *)
THEOREM TypeCorrect == Spec => [](TypeOK /\ HandlerInv)
<1>1. Init => Typed
  BY InitTyped
<1>2. Typed /\ [Next]_vars => Typed'
  BY NextTyped
<1>3. Typed => TypeOK /\ HandlerInv
  BY DEF Typed
<1> QED
  BY <1>1, <1>2, <1>3, PTL DEF Spec

-----------------------------------------------------------------------------
(* The current claim of a message.                                         *)

LEMMA InitOwner == Init => OwnerInv
  BY DEF Init, OwnerInv

LEMMA FrameOwner ==
    ASSUME OwnerInv, UNCHANGED <<status, providerMessageId, lease, owner, pc, job>>
    PROVE  OwnerInv'
  BY DEF OwnerInv, Msg

(* A handler that moves on inside its attempt, or outside of any.          *)
LEMMA GotoOwner ==
    ASSUME Typed, OwnerInv, NEW w \in Workers, NEW label,
           pc[w] \in Attempting => label \in Attempting,
           Goto(w, label),
           UNCHANGED <<status, providerMessageId, lease, owner, job>>
    PROVE  OwnerInv'
  BY DEF Typed, TypeOK, OwnerInv, Goto, Msg

(* The write that ends an attempt leaves no claim.                         *)
LEMMA EndOwner ==
    ASSUME Typed, OwnerInv, NEW w \in Workers, Msg(w) \in Messages,
           NEW s \in {"SUBMITTED", "QUEUED", "FAILED"}, NEW label,
           EndAttempt(Msg(w), s), Goto(w, label), UNCHANGED job,
           \A m \in Messages : m # Msg(w) => providerMessageId'[m] = providerMessageId[m]
    PROVE  OwnerInv'
  BY DEF Typed, TypeOK, OwnerInv, EndAttempt, Goto, Msg

LEMMA DropOwner ==
    ASSUME Typed, OwnerInv, NEW w \in Workers, DropHandler(w)
    PROVE  OwnerInv'
  BY PipelineAssumption DEF Typed, TypeOK, OwnerInv, DropHandler, Goto, Msg

LEMMA HandlerOwner ==
    ASSUME Typed, OwnerInv, NEW w \in Workers, HandlerStep(w)
    PROVE  OwnerInv'
<1>1. /\ Typed /\ TypeOK /\ HandlerInv
      /\ pc[w] # "idle" => job[w] \in Jobs /\ Msg(w) \in Messages
  BY DEF Typed, TypeOK, HandlerInv, Msg, Jobs
<1>2. CASE ClaimMessage(w)
  <2>1. CASE Claimable(Msg(w))
    <3>1. \A m \in Messages : owner[m] # w
      BY <1>2, PipelineAssumption DEF ClaimMessage, OwnerInv, Attempting
    <3> QED
      BY <1>1, <1>2, <2>1, <3>1, PipelineAssumption
      DEF ClaimMessage, Claimable, OwnerInv, Attempting, Goto, Msg, TypeOK
  <2>2. CASE ~Claimable(Msg(w))
    BY <1>2, <2>2, GotoOwner DEF ClaimMessage, Attempting
  <2> QED
    BY <2>1, <2>2
<1>3. CASE RecordSubmitted(w)
  BY <1>1, <1>3, EndOwner DEF RecordSubmitted, TypeOK
<1>4. CASE MarkRetryableFailure(w)
  BY <1>1, <1>4, EndOwner DEF MarkRetryableFailure
<1>5. CASE MarkFailed(w)
  BY <1>1, <1>5, EndOwner DEF MarkFailed
<1>6. CASE Ack(w)
  BY <1>1, <1>6, PipelineAssumption DEF Ack, OwnerInv, TypeOK, Goto, Msg, Attempting
<1>7. CASE ChannelClosedCrash(w)
  BY <1>7, DropOwner DEF ChannelClosedCrash
<1>8. CASE \/ ReloadLost(w) \/ ReloadWon(w) \/ ResolveSender(w) \/ WaitForOutboundSlot(w)
           \/ SendRefused(w) \/ RecordFails(w)
  BY <1>8, GotoOwner DEF ReloadLost, ReloadWon, ResolveSender, WaitForOutboundSlot,
     SendRefused, RecordFails, Attempting
<1>9. CASE SendAccepted(w) \/ SendAcceptedWithoutId(w) \/ SendAnswerLost(w)
  BY <1>9, GotoOwner DEF SendAccepted, SendAcceptedWithoutId, SendAnswerLost, Attempting
<1>10. CASE \/ MarkRetryExhausted(w) \/ ScheduleRetry(w) \/ RetriesExhausted(w)
            \/ ScheduleDeferredRetry(w) \/ PublishDeadLetter(w)
  BY <1>10, GotoOwner DEF MarkRetryExhausted, ScheduleRetry, RetriesExhausted,
     ScheduleDeferredRetry, PublishDeadLetter, Attempting
<1> QED
  BY <1>2, <1>3, <1>4, <1>5, <1>6, <1>7, <1>8, <1>9, <1>10 DEF HandlerStep

LEMMA NextOwner ==
    ASSUME Typed, OwnerInv, [Next]_vars
    PROVE  OwnerInv'
<1>1. CASE UNCHANGED vars
  BY <1>1, FrameOwner DEF vars
<1>2. CASE \E m \in Messages : Create(m)
  BY <1>2 DEF Create, OwnerInv, Typed, TypeOK, Msg
<1>3. CASE \E m \in Messages : EventLeaseExpires(m)
  BY <1>3, FrameOwner DEF EventLeaseExpires
<1>4. CASE \E m \in Messages : LeaseExpires(m)
  BY <1>4 DEF LeaseExpires, OwnerInv, Typed, TypeOK, Msg
<1>5. CASE \E m \in Messages, s \in ReceiptStatus : ApplyStatus(m, s)
  BY <1>5 DEF ApplyStatus, OwnerInv, Typed, TypeOK, Msg, ReceiptStatus
<1>6. CASE \E p \in Publishers : PublisherStep(p)
  BY <1>6, FrameOwner DEF PublisherStep, ClaimEvents, Publish, PublishFails,
     PublishUnconfirmed, MarkPublished, MarkPublishedFails, ReleaseEvent, FlushAborts
<1>7. CASE \E w \in Workers, j \in Jobs : Deliver(w, j)
  BY <1>7, PipelineAssumption DEF Deliver, Goto, OwnerInv, Typed, TypeOK, Msg, Attempting
<1>8. CASE \E w \in Workers : HandlerStep(w)
  BY <1>8, HandlerOwner
<1>9. CASE \E w \in Workers : Interruption(w)
  BY <1>9, DropOwner, FrameOwner
  DEF Interruption, HandlerThrows, Crash, Restart, ConnectionClosed
<1> QED
  BY <1>1, <1>2, <1>3, <1>4, <1>5, <1>6, <1>7, <1>8, <1>9 DEF Next

-----------------------------------------------------------------------------
(* How many acceptances a message can still collect.                       *)

LEMMA ContendersCount ==
    ASSUME NEW m \in Messages
    PROVE  /\ IsFiniteSet(Contenders(m)) /\ Cardinality(Contenders(m)) \in Nat
           /\ IsFiniteSet(Contenders(m)') /\ Cardinality(Contenders(m)') \in Nat
<1>1. Contenders(m) \subseteq Workers /\ Contenders(m)' \subseteq Workers
  BY DEF Contenders
<1>2. IsFiniteSet(Contenders(m)) /\ IsFiniteSet(Contenders(m)')
  BY <1>1, PipelineAssumption, FS_Subset
<1> QED
  BY <1>2, FS_CardinalityType

LEMMA FewerContenders ==
    ASSUME NEW m \in Messages, Contenders(m)' \subseteq Contenders(m)
    PROVE  Cardinality(Contenders(m)') <= Cardinality(Contenders(m))
  BY ContendersCount, FS_Subset

LEMMA OneContenderLess ==
    ASSUME NEW m \in Messages, NEW w \in Contenders(m),
           Contenders(m)' \subseteq Contenders(m) \ {w}
    PROVE  Cardinality(Contenders(m)') <= Cardinality(Contenders(m)) - 1
<1>1. /\ IsFiniteSet(Contenders(m) \ {w})
      /\ Cardinality(Contenders(m) \ {w}) = Cardinality(Contenders(m)) - 1
  BY ContendersCount, FS_RemoveElement
<1> QED
  BY <1>1, FS_Subset

LEMMA OneContenderMore ==
    ASSUME NEW m \in Messages, NEW w, Contenders(m)' \subseteq Contenders(m) \cup {w}
    PROVE  Cardinality(Contenders(m)') <= Cardinality(Contenders(m)) + 1
<1>1. /\ IsFiniteSet(Contenders(m) \cup {w})
      /\ Cardinality(Contenders(m) \cup {w}) <= Cardinality(Contenders(m)) + 1
  BY ContendersCount, FS_AddElement
<1>2. Cardinality(Contenders(m)') <= Cardinality(Contenders(m) \cup {w})
  BY <1>1, FS_Subset
<1>3. Cardinality(Contenders(m) \cup {w}) \in Nat
  BY <1>1, FS_CardinalityType
<1> QED
  BY <1>1, <1>2, <1>3, ContendersCount

(* The ways in which a step may change the three summands for one message. *)
Bounded(m) == Potential(m) <= 1 + excused[m]

LEMMA BoundedKept ==
    ASSUME Typed, NEW m \in Messages, Bounded(m),
           accepted'[m] = accepted[m], excused'[m] = excused[m],
           Contenders(m)' \subseteq Contenders(m),
           Unclaimed(m)' => Unclaimed(m)
    PROVE  Bounded(m)'
  BY ContendersCount, FewerContenders DEF Bounded, Potential, Typed, TypeOK

(* A claim turns the free place into a contender.                          *)
LEMMA BoundedClaim ==
    ASSUME Typed, NEW m \in Messages, Bounded(m), NEW w,
           accepted'[m] = accepted[m], excused'[m] = excused[m],
           Contenders(m)' \subseteq Contenders(m) \cup {w},
           Unclaimed(m), ~Unclaimed(m)'
    PROVE  Bounded(m)'
<1>1. Cardinality(Contenders(m)') <= Cardinality(Contenders(m)) + 1
  BY OneContenderMore
<1> QED
  BY <1>1, ContendersCount DEF Bounded, Potential, Typed, TypeOK

(* A contender gives its place back.                                       *)
LEMMA BoundedReturn ==
    ASSUME Typed, NEW m \in Messages, Bounded(m), NEW w \in Contenders(m),
           accepted'[m] = accepted[m], excused'[m] = excused[m],
           Contenders(m)' \subseteq Contenders(m) \ {w}
    PROVE  Bounded(m)'
  BY ContendersCount, OneContenderLess DEF Bounded, Potential, Typed, TypeOK

(* A contender becomes an acceptance.                                      *)
LEMMA BoundedSpend ==
    ASSUME Typed, NEW m \in Messages, Bounded(m), NEW w \in Contenders(m),
           accepted'[m] = accepted[m] + 1, excused'[m] = excused[m],
           Contenders(m)' \subseteq Contenders(m) \ {w},
           Unclaimed(m)' => Unclaimed(m)
    PROVE  Bounded(m)'
  BY ContendersCount, OneContenderLess DEF Bounded, Potential, Typed, TypeOK

(* A lost acceptance or an overrun lease pays for one more.                *)
LEMMA BoundedExcuse ==
    ASSUME Typed, NEW m \in Messages, Bounded(m),
           excused'[m] = excused[m] + 1,
           Contenders(m)' \subseteq Contenders(m),
           \/ accepted'[m] = accepted[m]
           \/ accepted'[m] = accepted[m] + 1 /\ (Unclaimed(m)' => Unclaimed(m))
    PROVE  Bounded(m)'
  BY ContendersCount, FewerContenders DEF Bounded, Potential, Typed, TypeOK

(* A step of one worker concerns the message of its delivery only.         *)
LEMMA OtherMessages ==
    ASSUME Typed, NEW w \in Workers, NEW m \in Messages, Bounded(m),
           pc[w] # "idle" => Msg(w) # m,
           \A v \in Workers : v # w =>
               pc'[v] = pc[v] /\ job'[v] = job[v] /\ held'[v] = held[v],
           pc'[w] \in Attempting => job'[w] = job[w] /\ pc[w] # "idle",
           status'[m] = status[m], providerMessageId'[m] = providerMessageId[m],
           owner'[m] = owner[m], accepted'[m] = accepted[m], excused'[m] = excused[m]
    PROVE  Bounded(m)'
<1>1. Contenders(m)' \subseteq Contenders(m)
  BY DEF Contenders, Msg, Attempting
<1>2. Unclaimed(m)' => Unclaimed(m)
  BY DEF Unclaimed
<1> QED
  BY <1>1, <1>2, BoundedKept

LEMMA FrameBounded ==
    ASSUME Typed, NEW m \in Messages, Bounded(m),
           UNCHANGED <<status, providerMessageId, owner, pc, job, held, accepted, excused>>
    PROVE  Bounded(m)'
<1>1. Contenders(m)' = Contenders(m) /\ Unclaimed(m)' = Unclaimed(m)
  BY DEF Contenders, Unclaimed, Msg
<1> QED
  BY <1>1, BoundedKept

(* A handler that moves on without writing: inside its attempt, or outside.*)
LEMMA GotoBounded ==
    ASSUME Typed, NEW w \in Workers, NEW label,
           label \in Attempting => pc[w] \in Attempting,
           Goto(w, label),
           UNCHANGED <<status, providerMessageId, owner, job, held, accepted, excused>>,
           NEW m \in Messages, Bounded(m)
    PROVE  Bounded(m)'
<1>1. Contenders(m)' \subseteq Contenders(m)
  BY DEF Contenders, Msg, Goto, Typed, TypeOK
<1>2. Unclaimed(m)' => Unclaimed(m)
  BY DEF Unclaimed
<1> QED
  BY <1>1, <1>2, BoundedKept

(* A handler that goes away gives its place back, or its loss is counted.  *)
LEMMA DropBounded ==
    ASSUME Typed, OwnerInv, NEW w \in Workers, DropHandler(w),
           NEW m \in Messages, Bounded(m)
    PROVE  Bounded(m)'
<1>1. Contenders(m)' \subseteq Contenders(m) \ {w}
  BY DEF Contenders, DropHandler, Goto, Msg, Typed, TypeOK, Attempting
<1>2. accepted'[m] = accepted[m]
  BY DEF DropHandler
<1>3. CASE held[w] # 0 /\ m = Msg(w)
  <2>1. excused'[m] = excused[m] + 1
    BY <1>3 DEF DropHandler, Typed, TypeOK
  <2> QED
    BY <1>1, <1>2, <2>1, BoundedExcuse
<1>4. CASE ~(held[w] # 0 /\ m = Msg(w))
  <2>1. excused'[m] = excused[m]
    BY <1>4 DEF DropHandler, Typed, TypeOK
  <2>2. CASE owner[m] = w
    <3>1. w \in Contenders(m)
      BY <1>4, <2>2, PipelineAssumption DEF OwnerInv, Contenders
    <3> QED
      BY <1>1, <1>2, <2>1, <3>1, BoundedReturn
  <2>3. CASE owner[m] # w
    <3>1. Unclaimed(m)' => Unclaimed(m)
      BY <2>3 DEF DropHandler, Unclaimed
    <3> QED
      BY <1>1, <1>2, <2>1, <3>1, BoundedKept
  <2> QED
    BY <2>2, <2>3
<1> QED
  BY <1>3, <1>4

LEMMA HandlerBounded ==
    ASSUME Typed, OwnerInv, NEW w \in Workers, HandlerStep(w),
           NEW m \in Messages, Bounded(m)
    PROVE  Bounded(m)'
<1>1. /\ TypeOK /\ HandlerInv
      /\ pc[w] # "idle" => job[w] \in Jobs /\ Msg(w) \in Messages
  BY DEF Typed, HandlerInv, Msg, Jobs
<1>2. CASE ClaimMessage(w)
  <2>1. CASE Claimable(Msg(w)) /\ m = Msg(w)
    <3>1. Unclaimed(m) /\ ~Unclaimed(m)'
      BY <1>1, <1>2, <2>1, PipelineAssumption
      DEF ClaimMessage, Claimable, Unclaimed, OwnerInv, TypeOK
    <3>2. Contenders(m)' \subseteq Contenders(m) \cup {w}
      BY <1>1, <1>2 DEF ClaimMessage, Contenders, Goto, Msg, TypeOK
    <3> QED
      BY <1>2, <3>1, <3>2, BoundedClaim DEF ClaimMessage
  <2>2. CASE Claimable(Msg(w)) /\ m # Msg(w)
    BY <1>1, <1>2, <2>2, OtherMessages DEF ClaimMessage, Goto, TypeOK
  <2>3. CASE ~Claimable(Msg(w))
    BY <1>2, <2>3, GotoBounded DEF ClaimMessage, Attempting
  <2> QED
    BY <2>1, <2>2, <2>3
<1>3. CASE SendAccepted(w) \/ SendAcceptedWithoutId(w)
  <2> USE DEF SendAccepted, SendAcceptedWithoutId
  <2>1. CASE m = Msg(w)
    <3>1. w \in Contenders(m)
      BY <1>1, <1>3, <2>1 DEF Contenders, HandlerInv, Attempting
    <3>2. Contenders(m)' \subseteq Contenders(m) \ {w}
      BY <1>1, <1>3, <2>1 DEF Contenders, Goto, Msg, TypeOK
    <3>3. Unclaimed(m)' => Unclaimed(m)
      BY <1>3 DEF Unclaimed
    <3>4. accepted'[m] = accepted[m] + 1 /\ excused'[m] = excused[m]
      BY <1>1, <1>3, <2>1 DEF TypeOK
    <3> QED
      BY <3>1, <3>2, <3>3, <3>4, BoundedSpend
  <2>2. CASE m # Msg(w)
    BY <1>1, <1>3, <2>2, OtherMessages DEF Goto, TypeOK
  <2> QED
    BY <2>1, <2>2
<1>4. CASE SendAnswerLost(w)
  <2>1. CASE m = Msg(w)
    <3>1. Contenders(m)' \subseteq Contenders(m)
      BY <1>1, <1>4 DEF SendAnswerLost, Contenders, Goto, Msg, TypeOK, Attempting
    <3>2. Unclaimed(m)' => Unclaimed(m)
      BY <1>4 DEF SendAnswerLost, Unclaimed
    <3>3. accepted'[m] = accepted[m] + 1 /\ excused'[m] = excused[m] + 1
      BY <1>1, <1>4, <2>1 DEF SendAnswerLost, TypeOK
    <3> QED
      BY <3>1, <3>2, <3>3, BoundedExcuse
  <2>2. CASE m # Msg(w)
    BY <1>1, <1>4, <2>2, OtherMessages DEF SendAnswerLost, Goto, TypeOK
  <2> QED
    BY <2>1, <2>2
<1>5. CASE RecordSubmitted(w)
  <2>1. CASE m = Msg(w)
    <3>1. Contenders(m)' \subseteq Contenders(m)
      BY <1>1, <1>5 DEF RecordSubmitted, Contenders, Goto, Msg, TypeOK, Attempting
    <3>2. ~Unclaimed(m)'
      BY <1>1, <1>5, <2>1 DEF RecordSubmitted, EndAttempt, Unclaimed, TypeOK
    <3> QED
      BY <1>5, <3>1, <3>2, BoundedKept DEF RecordSubmitted
  <2>2. CASE m # Msg(w)
    BY <1>1, <1>5, <2>2, OtherMessages DEF RecordSubmitted, EndAttempt, Goto, TypeOK, Attempting
  <2> QED
    BY <2>1, <2>2
<1>6. CASE MarkRetryableFailure(w)
  <2>1. CASE m = Msg(w)
    <3>1. w \in Contenders(m)
      BY <1>1, <1>6, <2>1 DEF MarkRetryableFailure, Contenders, HandlerInv, Attempting
    <3>2. Contenders(m)' \subseteq Contenders(m) \ {w}
      BY <1>1, <1>6 DEF MarkRetryableFailure, Contenders, Goto, Msg, TypeOK, Attempting
    <3> QED
      BY <1>6, <3>1, <3>2, BoundedReturn DEF MarkRetryableFailure
  <2>2. CASE m # Msg(w)
    BY <1>1, <1>6, <2>2, OtherMessages
    DEF MarkRetryableFailure, EndAttempt, Goto, TypeOK, Attempting
  <2> QED
    BY <2>1, <2>2
<1>7. CASE MarkFailed(w)
  <2>1. CASE m = Msg(w)
    <3>1. Contenders(m)' \subseteq Contenders(m)
      BY <1>1, <1>7 DEF MarkFailed, Contenders, Goto, Msg, TypeOK, Attempting
    <3>2. ~Unclaimed(m)'
      BY <1>1, <1>7, <2>1 DEF MarkFailed, EndAttempt, Unclaimed, TypeOK
    <3> QED
      BY <1>7, <3>1, <3>2, BoundedKept DEF MarkFailed
  <2>2. CASE m # Msg(w)
    BY <1>1, <1>7, <2>2, OtherMessages DEF MarkFailed, EndAttempt, Goto, TypeOK, Attempting
  <2> QED
    BY <2>1, <2>2
<1>8. CASE Ack(w)
  <2>1. Contenders(m)' \subseteq Contenders(m)
    BY <1>1, <1>8 DEF Ack, Contenders, Goto, Msg, TypeOK, Attempting
  <2>2. Unclaimed(m)' => Unclaimed(m)
    BY <1>8 DEF Ack, Unclaimed
  <2> QED
    BY <1>8, <2>1, <2>2, BoundedKept DEF Ack
<1>9. CASE ChannelClosedCrash(w)
  BY <1>9, DropBounded DEF ChannelClosedCrash
<1>10. CASE \/ ReloadLost(w) \/ ReloadWon(w) \/ ResolveSender(w) \/ WaitForOutboundSlot(w)
            \/ SendRefused(w) \/ RecordFails(w)
  BY <1>10, GotoBounded DEF ReloadLost, ReloadWon, ResolveSender, WaitForOutboundSlot,
     SendRefused, RecordFails, Attempting
<1>11. CASE \/ MarkRetryExhausted(w) \/ ScheduleRetry(w) \/ RetriesExhausted(w)
            \/ ScheduleDeferredRetry(w) \/ PublishDeadLetter(w)
  BY <1>11, GotoBounded DEF MarkRetryExhausted, ScheduleRetry, RetriesExhausted,
     ScheduleDeferredRetry, PublishDeadLetter, Attempting
<1> QED
  BY <1>2, <1>3, <1>4, <1>5, <1>6, <1>7, <1>8, <1>9, <1>10, <1>11 DEF HandlerStep

LEMMA InitPotential == Init => PotentialInv
<1> SUFFICES ASSUME Init, NEW m \in Messages
             PROVE  Potential(m) <= 1 + excused[m]
  BY DEF PotentialInv
<1>1. Contenders(m) = {}
  BY DEF Init, Contenders, Attempting
<1>2. Cardinality(Contenders(m)) = 0
  BY <1>1, FS_EmptySet
<1> QED
  BY <1>2 DEF Init, Potential

LEMMA NextPotential ==
    ASSUME Typed, OwnerInv, PotentialInv, [Next]_vars
    PROVE  PotentialInv'
<1> SUFFICES ASSUME NEW m \in Messages
             PROVE  Bounded(m)'
  BY DEF PotentialInv, Bounded
<1>0. Bounded(m)
  BY DEF PotentialInv, Bounded
<1>1. CASE UNCHANGED vars
  BY <1>0, <1>1, FrameBounded DEF vars
<1>2. CASE \E n \in Messages : Create(n)
  <2>1. Contenders(m)' = Contenders(m)
    BY <1>2 DEF Create, Contenders, Msg
  <2>2. Unclaimed(m)' => Unclaimed(m)
    BY <1>2 DEF Create, Unclaimed, Typed, TypeOK
  <2> QED
    BY <1>0, <1>2, <2>1, <2>2, BoundedKept DEF Create
<1>3. CASE \E n \in Messages : EventLeaseExpires(n)
  BY <1>0, <1>3, FrameBounded DEF EventLeaseExpires
<1>4. CASE \E n \in Messages : LeaseExpires(n)
  <2>1. PICK n \in Messages : LeaseExpires(n)
    BY <1>4
  <2>2. Contenders(m)' = Contenders(m) /\ accepted'[m] = accepted[m]
    BY <2>1 DEF LeaseExpires, Contenders, Msg
  <2>3. CASE n = m /\ owner[m] # None
    <3>1. excused'[m] = excused[m] + 1
      BY <2>1, <2>3 DEF LeaseExpires, Typed, TypeOK
    <3> QED
      BY <1>0, <2>2, <3>1, BoundedExcuse
  <2>4. CASE ~(n = m /\ owner[m] # None)
    <3>1. excused'[m] = excused[m] /\ (Unclaimed(m)' => Unclaimed(m))
      BY <2>1, <2>4 DEF LeaseExpires, Unclaimed, Typed, TypeOK
    <3> QED
      BY <1>0, <2>2, <3>1, BoundedKept
  <2> QED
    BY <2>3, <2>4
<1>5. CASE \E n \in Messages, s \in ReceiptStatus : ApplyStatus(n, s)
  <2>1. Contenders(m)' = Contenders(m)
    BY <1>5 DEF ApplyStatus, Contenders, Msg
  <2>2. Unclaimed(m)' => Unclaimed(m)
    BY <1>5 DEF ApplyStatus, Unclaimed, Typed, TypeOK
  <2> QED
    BY <1>0, <1>5, <2>1, <2>2, BoundedKept DEF ApplyStatus
<1>6. CASE \E p \in Publishers : PublisherStep(p)
  BY <1>0, <1>6, FrameBounded DEF PublisherStep, ClaimEvents, Publish, PublishFails,
     PublishUnconfirmed, MarkPublished, MarkPublishedFails, ReleaseEvent, FlushAborts
<1>7. CASE \E w \in Workers, j \in Jobs : Deliver(w, j)
  <2>1. Contenders(m)' \subseteq Contenders(m)
    BY <1>7 DEF Deliver, Contenders, Goto, Msg, Typed, TypeOK, Attempting
  <2>2. Unclaimed(m)' => Unclaimed(m)
    BY <1>7 DEF Deliver, Unclaimed
  <2> QED
    BY <1>0, <1>7, <2>1, <2>2, BoundedKept DEF Deliver
<1>8. CASE \E w \in Workers : HandlerStep(w)
  BY <1>0, <1>8, HandlerBounded
<1>9. CASE \E w \in Workers : Interruption(w)
  BY <1>0, <1>9, DropBounded, FrameBounded
  DEF Interruption, HandlerThrows, Crash, Restart, ConnectionClosed
<1> QED
  BY <1>1, <1>2, <1>3, <1>4, <1>5, <1>6, <1>7, <1>8, <1>9 DEF Next

(* Meta takes a message again only after a lost acceptance or an overrun   *)
(* lease (DuplicatesExcused), for every number of workers, publishers,     *)
(* retries, duplicate jobs and faults.                                     *)
THEOREM DuplicatesAreExcused == Spec => []DuplicatesExcused
<1> DEFINE I == Typed /\ OwnerInv /\ PotentialInv
<1>1. Init => I
  BY InitTyped, InitOwner, InitPotential
<1>2. I /\ [Next]_vars => I'
  BY NextTyped, NextOwner, NextPotential
<1>3. I => DuplicatesExcused
  BY ContendersCount DEF PotentialInv, Potential, DuplicatesExcused, Typed, TypeOK
<1> HIDE DEF I
<1> QED
  BY <1>1, <1>2, <1>3, PTL DEF Spec

-----------------------------------------------------------------------------
(* Who keeps a message from being forgotten.                               *)

QueueKeeps(m) == \E j \in Jobs : j.msg = m /\ queue[j] > 0

WorkerKeeps(m, labels) ==
    \E w \in Workers : channel[w] = "open" /\ pc[w] \in labels /\ Msg(w) = m

NotStarted(m) ==
    status[m] = "ABSENT" =>
        /\ ~published[m]
        /\ \A p \in Publishers : m \notin batch[p] /\ current[p] # m

Kept(m) ==
    providerMessageId[m] = 0 /\ ~severed[m] =>
        /\ status[m] \in {"CREATED", "QUEUED"} => KeptBy(m, QueuedKeepers)
        /\ status[m] = "PROCESSING" => KeptBy(m, ProcessingKeepers)

LEMMA CustodyParts == CustodyInv <=> \A m \in Messages : NotStarted(m) /\ Kept(m)
  BY DEF CustodyInv, NotStarted, Kept

LEMMA KeptByParts ==
    ASSUME NEW m, NEW labels
    PROVE  KeptBy(m, labels) <=> EventKeeps(m) \/ QueueKeeps(m) \/ WorkerKeeps(m, labels)
  BY DEF KeptBy, QueueKeeps, WorkerKeeps

(* A job that is put on a queue stays a job of its message.                *)
LEMMA Queued ==
    ASSUME Typed, NEW j \in Jobs, queue' = [queue EXCEPT ![j] = @ + 1]
    PROVE  /\ QueueKeeps(j.msg)'
           /\ \A m \in Messages : QueueKeeps(m) => QueueKeeps(m)'
  BY DEF Typed, TypeOK, QueueKeeps

(* A step of one handler keeps a message that is not its own, or that it   *)
(* keeps itself, or that it has put back on a queue.                       *)
LEMMA StepKeeps ==
    ASSUME Typed, NEW w \in Workers, NEW m \in Messages, NEW labels,
           KeptBy(m, labels),
           UNCHANGED <<published, phase, current>>,
           QueueKeeps(m) => QueueKeeps(m)',
           \A v \in Workers \ {w} :
               pc'[v] = pc[v] /\ job'[v] = job[v] /\ channel'[v] = channel[v],
           channel[w] = "open" /\ pc[w] \in labels /\ Msg(w) = m
               => QueueKeeps(m)' \/ (channel'[w] = "open" /\ pc'[w] \in labels /\ Msg(w)' = m)
    PROVE  KeptBy(m, labels)'
<1>1. EventKeeps(m) => EventKeeps(m)'
  BY DEF EventKeeps
<1>2. WorkerKeeps(m, labels) => WorkerKeeps(m, labels)' \/ QueueKeeps(m)'
  BY DEF WorkerKeeps, Msg
<1> QED
  BY <1>1, <1>2 DEF KeptBy, QueueKeeps, WorkerKeeps

(* The same for both kinds of keeper, when the row of the message is left  *)
(* alone.                                                                  *)
LEMMA StepKept ==
    ASSUME Typed, NEW w \in Workers, NEW m \in Messages, Kept(m),
           UNCHANGED <<published, phase, current>>,
           status'[m] = status[m], providerMessageId'[m] = providerMessageId[m],
           severed[m] => severed'[m],
           QueueKeeps(m) => QueueKeeps(m)',
           \A v \in Workers \ {w} :
               pc'[v] = pc[v] /\ job'[v] = job[v] /\ channel'[v] = channel[v],
           /\ channel[w] = "open" /\ Msg(w) = m /\ providerMessageId[m] = 0 /\ ~severed[m]
           /\ ~QueueKeeps(m)'
           => /\ status[m] \in {"CREATED", "QUEUED"} /\ pc[w] \in QueuedKeepers
                   => channel'[w] = "open" /\ pc'[w] \in QueuedKeepers /\ Msg(w)' = m
              /\ status[m] = "PROCESSING" /\ pc[w] \in ProcessingKeepers
                   => channel'[w] = "open" /\ pc'[w] \in ProcessingKeepers /\ Msg(w)' = m
    PROVE  Kept(m)'
<1> SUFFICES ASSUME providerMessageId[m] = 0, ~severed[m], ~severed'[m]
             PROVE  /\ status[m] \in {"CREATED", "QUEUED"} => KeptBy(m, QueuedKeepers)'
                    /\ status[m] = "PROCESSING" => KeptBy(m, ProcessingKeepers)'
  BY DEF Kept, QueuedKeepers, ProcessingKeepers, KeptBy, Attempting
<1>1. CASE status[m] \in {"CREATED", "QUEUED"}
  <2>1. KeptBy(m, QueuedKeepers)
    BY <1>1 DEF Kept
  <2> QED
    BY <1>1, <2>1, StepKeeps
<1>2. CASE status[m] = "PROCESSING"
  <2>1. KeptBy(m, ProcessingKeepers)
    BY <1>2 DEF Kept
  <2> QED
    BY <1>2, <2>1, StepKeeps
<1> QED
  BY <1>1, <1>2

(* The write that ends an attempt: a QUEUED row is kept by the handler     *)
(* that is about to retry, any other row needs no keeper.                  *)
LEMMA EndKept ==
    ASSUME Typed, NEW w \in Workers, NEW m \in Messages, Kept(m), pc[w] # "idle",
           NEW s \in {"SUBMITTED", "QUEUED", "FAILED"}, EndAttempt(Msg(w), s),
           NEW label, Goto(w, label), s = "QUEUED" => label = "retry",
           pc[w] \in Attempting \cup {"markExhausted"},
           UNCHANGED <<outboxVars, queue, job, channel, severed>>,
           m # Msg(w) => providerMessageId'[m] = providerMessageId[m]
    PROVE  Kept(m)'
<1>1. /\ TypeOK /\ HandlerInv /\ Msg(w) \in Messages /\ Msg(w)' = Msg(w)
  BY DEF Typed, HandlerInv, Msg, Jobs
<1>2. CASE m = Msg(w)
  <2>1. status'[m] = s
    BY <1>1, <1>2 DEF EndAttempt, TypeOK
  <2>2. CASE s = "QUEUED" /\ ~severed[m]
    <3>1. channel'[w] = "open" /\ pc'[w] \in QueuedKeepers /\ Msg(w)' = m
      BY <1>1, <1>2, <2>2 DEF HandlerInv, TypeOK, Goto, QueuedKeepers
    <3>2. KeptBy(m, QueuedKeepers)'
      BY <3>1 DEF KeptBy, QueuedKeepers, Attempting
    <3> QED
      BY <2>1, <2>2, <3>2 DEF Kept
  <2>3. CASE s # "QUEUED" \/ severed[m]
    BY <2>1, <2>3 DEF Kept
  <2> QED
    BY <2>2, <2>3
<1>3. CASE m # Msg(w)
  <2>1. QueueKeeps(m) => QueueKeeps(m)'
    BY DEF QueueKeeps
  <2>2. status'[m] = status[m]
    BY <1>1, <1>3 DEF EndAttempt, TypeOK
  <2>3. \A v \in Workers \ {w} : pc'[v] = pc[v] /\ job'[v] = job[v] /\ channel'[v] = channel[v]
    BY <1>1 DEF Goto, TypeOK
  <2> QED
    BY <1>3, <2>1, <2>2, <2>3, StepKept
<1> QED
  BY <1>2, <1>3

(* A handler that moves on without touching rows or queues.                *)
LEMMA GotoKept ==
    ASSUME Typed, NEW w \in Workers, NEW m \in Messages, Kept(m), NEW label, Goto(w, label),
           UNCHANGED <<status, providerMessageId, outboxVars, queue, job, channel, severed>>,
           m = Msg(w) /\ providerMessageId[m] = 0
           => /\ status[m] \in {"CREATED", "QUEUED"} /\ pc[w] \in QueuedKeepers
                   => label \in QueuedKeepers
              /\ status[m] = "PROCESSING" /\ pc[w] \in ProcessingKeepers
                   => label \in ProcessingKeepers
    PROVE  Kept(m)'
<1>1. QueueKeeps(m) => QueueKeeps(m)'
  BY DEF QueueKeeps
<1>2. \A v \in Workers \ {w} : pc'[v] = pc[v] /\ job'[v] = job[v] /\ channel'[v] = channel[v]
  BY DEF Goto, Typed, TypeOK
<1>3. pc'[w] = label /\ channel'[w] = channel[w] /\ Msg(w)' = Msg(w)
  BY DEF Goto, Typed, TypeOK, Msg
<1> QED
  BY <1>1, <1>2, <1>3, StepKept

(* A handler that puts a job of its message on a queue.                    *)
LEMMA RequeueKept ==
    ASSUME Typed, NEW w \in Workers, NEW m \in Messages, Kept(m),
           NEW j \in Jobs, j.msg = Msg(w), queue' = [queue EXCEPT ![j] = @ + 1],
           UNCHANGED <<status, providerMessageId, outboxVars>>,
           severed[m] => severed'[m],
           \A v \in Workers \ {w} :
               pc'[v] = pc[v] /\ job'[v] = job[v] /\ channel'[v] = channel[v]
    PROVE  Kept(m)'
<1>1. QueueKeeps(m) => QueueKeeps(m)'
  BY Queued
<1>2. m = Msg(w) => QueueKeeps(m)'
  BY Queued
<1> QED
  BY <1>1, <1>2, StepKept

LEMMA HandlerKept ==
    ASSUME Typed, NEW w \in Workers, HandlerStep(w), NEW m \in Messages, Kept(m)
    PROVE  Kept(m)'
<1>1. /\ TypeOK /\ HandlerInv
      /\ pc[w] # "idle" => job[w] \in Jobs /\ Msg(w) \in Messages
  BY DEF Typed, HandlerInv, Msg, Jobs
<1>2. CASE ClaimMessage(w)
  <2>1. CASE Claimable(Msg(w)) /\ m = Msg(w)
    <3>1. status'[m] = "PROCESSING" /\ severed' = severed
      BY <1>1, <1>2, <2>1 DEF ClaimMessage, TypeOK
    <3>2. CASE ~severed[m]
      <4>1. channel'[w] = "open" /\ pc'[w] \in ProcessingKeepers /\ Msg(w)' = m
        BY <1>1, <1>2, <2>1, <3>2
        DEF ClaimMessage, HandlerInv, TypeOK, Goto, Msg, ProcessingKeepers, Attempting
      <4>2. KeptBy(m, ProcessingKeepers)'
        BY <4>1 DEF KeptBy, ProcessingKeepers, Attempting
      <4> QED
        BY <3>1, <4>2 DEF Kept
    <3> QED
      BY <3>1, <3>2 DEF Kept
  <2>2. CASE Claimable(Msg(w)) /\ m # Msg(w)
    <3>1. QueueKeeps(m) => QueueKeeps(m)'
      BY <1>2 DEF ClaimMessage, QueueKeeps
    <3>2. \A v \in Workers \ {w} : pc'[v] = pc[v] /\ job'[v] = job[v] /\ channel'[v] = channel[v]
      BY <1>1, <1>2, <2>2 DEF ClaimMessage, Goto, TypeOK
    <3>3. status'[m] = status[m]
      BY <1>1, <1>2, <2>2 DEF ClaimMessage, TypeOK
    <3> QED
      BY <1>2, <2>2, <3>1, <3>2, <3>3, StepKept DEF ClaimMessage
  <2>3. CASE ~Claimable(Msg(w))
    BY <1>2, <2>3, GotoKept DEF ClaimMessage, Claimable, ProcessingKeepers
  <2> QED
    BY <2>1, <2>2, <2>3
<1>3. CASE ReloadLost(w)
  BY <1>3, GotoKept DEF ReloadLost, QueuedKeepers, ProcessingKeepers, Attempting
<1>4. CASE RecordSubmitted(w)
  BY <1>1, <1>4, EndKept DEF RecordSubmitted, TypeOK, Attempting
<1>5. CASE MarkRetryableFailure(w)
  BY <1>5, EndKept DEF MarkRetryableFailure, Attempting
<1>6. CASE MarkFailed(w)
  BY <1>6, EndKept DEF MarkFailed, Attempting
<1>7. CASE MarkRetryExhausted(w)
  BY <1>7, GotoKept DEF MarkRetryExhausted, QueuedKeepers, ProcessingKeepers, Attempting,
     TERMINAL_OR_SUBMITTED_STATUSES
<1>8. CASE ScheduleRetry(w)
  <2>1. /\ [job[w] EXCEPT !.attempt = @ + 1] \in Jobs
        /\ [job[w] EXCEPT !.attempt = @ + 1].msg = Msg(w)
    BY <1>1, <1>8, NextAttempt DEF ScheduleRetry, Msg
  <2>2. \A v \in Workers \ {w} : pc'[v] = pc[v]
    BY <1>1, <1>8 DEF ScheduleRetry, Goto, TypeOK
  <2> QED
    BY <1>8, <2>1, <2>2, RequeueKept DEF ScheduleRetry
<1>9. CASE ScheduleDeferredRetry(w)
  <2>1. \A v \in Workers \ {w} : pc'[v] = pc[v]
    BY <1>1, <1>9 DEF ScheduleDeferredRetry, Goto, TypeOK
  <2> QED
    BY <1>1, <1>9, <2>1, RequeueKept DEF ScheduleDeferredRetry, Msg
<1>10. CASE Ack(w) \/ ChannelClosedCrash(w)
  <2>1. QueueKeeps(m) => QueueKeeps(m)'
    BY <1>10 DEF Ack, ChannelClosedCrash, QueueKeeps
  <2>2. \A v \in Workers \ {w} : pc'[v] = pc[v] /\ job'[v] = job[v] /\ channel'[v] = channel[v]
    BY <1>1, <1>10 DEF Ack, ChannelClosedCrash, DropHandler, Goto, TypeOK
  <2>3. channel[w] = "open" => pc[w] \notin QueuedKeepers \cup ProcessingKeepers
    BY <1>10 DEF Ack, ChannelClosedCrash, QueuedKeepers, ProcessingKeepers, Attempting
  <2> QED
    BY <1>10, <2>1, <2>2, <2>3, StepKept DEF Ack, ChannelClosedCrash, DropHandler
<1>11. CASE ReloadWon(w) \/ ResolveSender(w) \/ WaitForOutboundSlot(w) \/ SendRefused(w)
  BY <1>11, GotoKept DEF ReloadWon, ResolveSender, WaitForOutboundSlot, SendRefused,
     QueuedKeepers, ProcessingKeepers, Attempting
<1>12. CASE \/ SendAccepted(w) \/ SendAcceptedWithoutId(w) \/ SendAnswerLost(w)
            \/ RecordFails(w)
  BY <1>12, GotoKept DEF SendAccepted, SendAcceptedWithoutId, SendAnswerLost, RecordFails,
     QueuedKeepers, ProcessingKeepers, Attempting
<1>13. CASE RetriesExhausted(w) \/ PublishDeadLetter(w)
  BY <1>13, GotoKept DEF RetriesExhausted, PublishDeadLetter, QueuedKeepers,
     ProcessingKeepers, Attempting
<1> QED
  BY <1>2, <1>3, <1>4, <1>5, <1>6, <1>7, <1>8, <1>9, <1>10, <1>11, <1>12, <1>13 DEF HandlerStep

LEMMA InterruptionKept ==
    ASSUME Typed, NEW w \in Workers, Interruption(w), NEW m \in Messages, Kept(m)
    PROVE  Kept(m)'
<1>1. /\ TypeOK /\ HandlerInv
      /\ pc[w] # "idle" => job[w] \in Jobs /\ job[w].msg = Msg(w)
  BY DEF Typed, HandlerInv, Msg
<1>2. "idle" \notin QueuedKeepers \cup ProcessingKeepers
  BY DEF QueuedKeepers, ProcessingKeepers, Attempting
<1>3. \A v \in Workers \ {w} : pc'[v] = pc[v] /\ job'[v] = job[v] /\ channel'[v] = channel[v]
  BY <1>1 DEF Interruption, HandlerThrows, Crash, Restart, ConnectionClosed, DropHandler, Goto,
     TypeOK
<1>4. /\ UNCHANGED <<status, providerMessageId, outboxVars>>
      /\ severed[m] => severed'[m]
  BY <1>1 DEF Interruption, HandlerThrows, Crash, Restart, ConnectionClosed, DropHandler, TypeOK
<1>5. CASE queue' = [queue EXCEPT ![job[w]] = @ + 1] /\ pc[w] # "idle"
  BY <1>1, <1>3, <1>4, <1>5, RequeueKept
<1>6. CASE /\ queue' = queue
           /\ channel[w] # "open" \/ pc[w] = "idle"
  <2>1. QueueKeeps(m) => QueueKeeps(m)'
    BY <1>6 DEF QueueKeeps
  <2> QED
    BY <1>2, <1>3, <1>4, <1>6, <2>1, StepKept
<1> QED
  BY <1>5, <1>6 DEF Interruption, HandlerThrows, Crash, Restart, ConnectionClosed

(* A publisher gives up its event only after it has queued the job.        *)
LEMMA PublisherKept ==
    ASSUME Typed, NEW p \in Publishers, PublisherStep(p), NEW m \in Messages, Kept(m)
    PROVE  Kept(m)'
<1> USE DEF Typed, TypeOK
<1>1. UNCHANGED <<messageVars, workerVars, severed>>
  BY DEF PublisherStep, ClaimEvents, Publish, PublishFails, PublishUnconfirmed, MarkPublished,
     MarkPublishedFails, ReleaseEvent, FlushAborts
<1>2. QueueKeeps(m) => QueueKeeps(m)'
  <2>1. CASE queue' = queue
    BY <2>1 DEF QueueKeeps
  <2>2. CASE \E n \in Messages : queue' = [queue EXCEPT ![FirstJob(n)] = @ + 1]
    BY <2>2, Queued, JobFields
  <2> QED
    BY <2>1, <2>2 DEF PublisherStep, ClaimEvents, Publish, PublishFails, PublishUnconfirmed,
       MarkPublished, MarkPublishedFails, ReleaseEvent, FlushAborts
<1>3. EventKeeps(m) => EventKeeps(m)' \/ QueueKeeps(m)'
  <2>1. CASE \E n \in Messages : Publish(p, n)
    <3>1. PICK n \in Messages : Publish(p, n)
      BY <2>1
    <3>2. n = m => QueueKeeps(m)'
      BY <3>1, Queued, JobFields DEF Publish
    <3>3. n # m /\ EventKeeps(m) => EventKeeps(m)'
      BY <3>1 DEF Publish, EventKeeps
    <3> QED
      BY <3>2, <3>3
  <2>2. CASE ClaimEvents(p)
    BY <2>2 DEF ClaimEvents, EventKeeps
  <2>3. CASE \E n \in Messages : PublishFails(p, n) \/ PublishUnconfirmed(p, n)
    BY <2>3 DEF PublishFails, PublishUnconfirmed, EventKeeps
  <2>4. CASE MarkPublished(p)
    BY <2>4 DEF MarkPublished, NextEvent, EventKeeps
  <2>5. CASE MarkPublishedFails(p)
    BY <2>5 DEF MarkPublishedFails, EventKeeps
  <2>6. CASE ReleaseEvent(p)
    BY <2>6 DEF ReleaseEvent, NextEvent, EventKeeps
  <2>7. CASE FlushAborts(p)
    BY <2>7 DEF FlushAborts, EventKeeps
  <2> QED
    BY <2>1, <2>2, <2>3, <2>4, <2>5, <2>6, <2>7 DEF PublisherStep
<1>4. ASSUME NEW labels, KeptBy(m, labels)
      PROVE  KeptBy(m, labels)'
  <2>1. WorkerKeeps(m, labels) => WorkerKeeps(m, labels)'
    BY <1>1 DEF WorkerKeeps, Msg
  <2> QED
    BY <1>2, <1>3, <1>4, <2>1 DEF KeptBy, QueueKeeps, WorkerKeeps
<1>5. /\ KeptBy(m, QueuedKeepers) => KeptBy(m, QueuedKeepers)'
      /\ KeptBy(m, ProcessingKeepers) => KeptBy(m, ProcessingKeepers)'
  BY <1>4
<1> QED
  BY <1>1, <1>5 DEF Kept, QueuedKeepers, ProcessingKeepers, Attempting

LEMMA DeliverKept ==
    ASSUME Typed, NEW w \in Workers, NEW j \in Jobs, Deliver(w, j), NEW m \in Messages, Kept(m)
    PROVE  Kept(m)'
<1> USE DEF Typed, TypeOK
<1>1. "claim" \in QueuedKeepers /\ "claim" \in ProcessingKeepers
  BY DEF QueuedKeepers, ProcessingKeepers
<1>2. "idle" \notin QueuedKeepers /\ "idle" \notin ProcessingKeepers
  BY DEF QueuedKeepers, ProcessingKeepers, Attempting
<1>3. ASSUME NEW labels, "claim" \in labels, "idle" \notin labels, KeptBy(m, labels)
      PROVE  KeptBy(m, labels)'
  <2>1. CASE j.msg = m
    <3>1. channel'[w] = "open" /\ pc'[w] = "claim" /\ Msg(w)' = m
      BY <2>1 DEF Deliver, Goto, Msg
    <3> QED
      BY <1>3, <3>1 DEF KeptBy
  <2>2. CASE j.msg # m
    <3>1. QueueKeeps(m) => QueueKeeps(m)'
      BY <2>2 DEF Deliver, QueueKeeps
    <3>2. WorkerKeeps(m, labels) => WorkerKeeps(m, labels)'
      BY <1>3 DEF Deliver, Goto, WorkerKeeps, Msg
    <3>3. EventKeeps(m) => EventKeeps(m)'
      BY DEF Deliver, EventKeeps
    <3> QED
      BY <1>3, <3>1, <3>2, <3>3 DEF KeptBy, QueueKeeps, WorkerKeeps
  <2> QED
    BY <2>1, <2>2
<1>4. /\ KeptBy(m, QueuedKeepers) => KeptBy(m, QueuedKeepers)'
      /\ KeptBy(m, ProcessingKeepers) => KeptBy(m, ProcessingKeepers)'
  BY <1>1, <1>2, <1>3
<1> QED
  BY <1>4 DEF Deliver, Kept, QueuedKeepers, ProcessingKeepers, Attempting

(* The row changes hands with the queues and the handlers left alone.      *)
LEMMA FrameKept ==
    ASSUME NEW m \in Messages, Kept(m),
           \/ status'[m] = status[m] /\ providerMessageId'[m] = providerMessageId[m]
           \/ providerMessageId'[m] # 0,
           UNCHANGED <<published, phase, current, queue, workerVars, severed>>
    PROVE  Kept(m)'
<1>1. ASSUME NEW labels, KeptBy(m, labels)
      PROVE  KeptBy(m, labels)'
  BY <1>1 DEF KeptBy, EventKeeps, Msg
<1>2. /\ KeptBy(m, QueuedKeepers) => KeptBy(m, QueuedKeepers)'
      /\ KeptBy(m, ProcessingKeepers) => KeptBy(m, ProcessingKeepers)'
  BY <1>1
<1> QED
  BY <1>2 DEF Kept, QueuedKeepers, ProcessingKeepers, Attempting

LEMMA InitCustody == Init => CustodyInv
<1> SUFFICES ASSUME Init, NEW m \in Messages
             PROVE  NotStarted(m) /\ Kept(m)
  BY CustodyParts
<1>1. CASE m \in Legacy
  <2>1. QueueKeeps(m)
    BY <1>1, JobFields DEF Init, QueueKeeps
  <2> QED
    BY <1>1, <2>1, KeptByParts DEF Init, NotStarted, Kept
<1>2. CASE m \notin Legacy
  BY <1>2, PipelineAssumption DEF Init, NotStarted, Kept
<1> QED
  BY <1>1, <1>2

(* No publisher touches an event before its message exists.                *)
LEMMA NextNotStarted ==
    ASSUME Typed, [Next]_vars, NEW m \in Messages, NotStarted(m)
    PROVE  NotStarted(m)'
<1> USE DEF Typed, TypeOK, NotStarted
<1>1. CASE UNCHANGED vars
  BY <1>1 DEF vars
<1>2. CASE \E n \in Messages : Create(n) \/ EventLeaseExpires(n) \/ LeaseExpires(n)
  BY <1>2 DEF Create, EventLeaseExpires, LeaseExpires
<1>3. CASE \E n \in Messages, s \in ReceiptStatus : ApplyStatus(n, s)
  BY <1>3 DEF ApplyStatus, ReceiptStatus
<1>4. CASE \E p \in Publishers : PublisherStep(p)
  <2>1. PICK p \in Publishers : PublisherStep(p)
    BY <1>4
  <2>2. CASE ClaimEvents(p)
    BY <2>2 DEF ClaimEvents, ClaimableEvent
  <2>3. CASE \E n \in Messages : Publish(p, n) \/ PublishFails(p, n) \/ PublishUnconfirmed(p, n)
    BY <2>3 DEF Publish, PublishFails, PublishUnconfirmed
  <2>4. CASE MarkPublished(p)
    BY <2>4, PipelineAssumption DEF MarkPublished, NextEvent
  <2>5. CASE ReleaseEvent(p)
    BY <2>5, PipelineAssumption DEF ReleaseEvent, NextEvent
  <2>6. CASE MarkPublishedFails(p) \/ FlushAborts(p)
    BY <2>6, PipelineAssumption DEF MarkPublishedFails, FlushAborts
  <2> QED
    BY <2>1, <2>2, <2>3, <2>4, <2>5, <2>6 DEF PublisherStep
<1>5. CASE \E w \in Workers, j \in Jobs : Deliver(w, j)
  BY <1>5 DEF Deliver
<1>6. CASE \E w \in Workers : HandlerStep(w) \/ Interruption(w)
  <2>1. PICK w \in Workers : HandlerStep(w) \/ Interruption(w)
    BY <1>6
  <2>2. UNCHANGED outboxVars
    BY <2>1 DEF HandlerStep, Interruption, ClaimMessage, ReloadLost, ReloadWon, ResolveSender,
       WaitForOutboundSlot, SendAccepted, SendAcceptedWithoutId, SendAnswerLost, SendRefused,
       RecordSubmitted, RecordFails, MarkRetryableFailure, MarkFailed, MarkRetryExhausted,
       ScheduleRetry, RetriesExhausted, ScheduleDeferredRetry, PublishDeadLetter, Ack,
       ChannelClosedCrash, HandlerThrows, Crash, Restart, ConnectionClosed, DropHandler
  <2>3. status'[m] = "ABSENT" => status[m] = "ABSENT"
    BY <2>1 DEF HandlerStep, Interruption, ClaimMessage, ReloadLost, ReloadWon, ResolveSender,
       WaitForOutboundSlot, SendAccepted, SendAcceptedWithoutId, SendAnswerLost, SendRefused,
       RecordSubmitted, RecordFails, MarkRetryableFailure, MarkFailed, MarkRetryExhausted,
       ScheduleRetry, RetriesExhausted, ScheduleDeferredRetry, PublishDeadLetter, Ack,
       ChannelClosedCrash, HandlerThrows, Crash, Restart, ConnectionClosed, DropHandler,
       EndAttempt
  <2> QED
    BY <2>2, <2>3
<1> QED
  BY <1>1, <1>2, <1>3, <1>4, <1>5, <1>6 DEF Next

LEMMA NextCustody ==
    ASSUME Typed, CustodyInv, [Next]_vars
    PROVE  CustodyInv'
<1> SUFFICES ASSUME NEW m \in Messages, NotStarted(m), Kept(m)
             PROVE  NotStarted(m)' /\ Kept(m)'
  BY DEF CustodyInv, NotStarted, Kept
<1>1. NotStarted(m)'
  BY NextNotStarted
<1> SUFFICES Kept(m)'
  BY <1>1
<1>2. CASE UNCHANGED vars
  BY <1>2, FrameKept DEF vars
<1>3. CASE \E n \in Messages : Create(n)
  <2>1. PICK n \in Messages : Create(n)
    BY <1>3
  <2>2. CASE n = m
    <3>1. EventKeeps(m)'
      BY <2>1, <2>2 DEF Create, NotStarted, EventKeeps
    <3> QED
      BY <2>1, <2>2, <3>1 DEF Create, Kept, KeptBy, Typed, TypeOK
  <2>3. CASE n # m
    BY <2>1, <2>3, FrameKept DEF Create, Typed, TypeOK
  <2> QED
    BY <2>2, <2>3
<1>4. CASE \E n \in Messages : EventLeaseExpires(n)
  BY <1>4, FrameKept DEF EventLeaseExpires
<1>5. CASE \E n \in Messages : LeaseExpires(n)
  BY <1>5, FrameKept DEF LeaseExpires
<1>6. CASE \E n \in Messages, s \in ReceiptStatus : ApplyStatus(n, s)
  BY <1>6, FrameKept DEF ApplyStatus, Typed, TypeOK
<1>7. CASE \E p \in Publishers : PublisherStep(p)
  BY <1>7, PublisherKept
<1>8. CASE \E w \in Workers, j \in Jobs : Deliver(w, j)
  BY <1>8, DeliverKept
<1>9. CASE \E w \in Workers : HandlerStep(w) \/ Interruption(w)
  BY <1>9, HandlerKept, InterruptionKept
<1> QED
  BY <1>1, <1>2, <1>3, <1>4, <1>5, <1>6, <1>7, <1>8, <1>9 DEF Next

(* No accepted message is forgotten (NoMessageStranded), for every number  *)
(* of messages, workers, publishers, crashes and database errors, unless   *)
(* the broker took its delivery back from a handler that ran on.           *)
THEOREM MessagesAreKept == Spec => []NoMessageStranded
<1> DEFINE I == Typed /\ CustodyInv
<1>1. Init => I
  BY InitTyped, InitCustody
<1>2. I /\ [Next]_vars => I'
  BY NextTyped, NextCustody
<1>3. I => NoMessageStranded
  <2> SUFFICES ASSUME I, NEW m \in Messages, Unsettled(m), ~severed[m]
               PROVE  InCustody(m)
    BY DEF NoMessageStranded
  <2>1. KeptBy(m, QueuedKeepers) \/ KeptBy(m, ProcessingKeepers)
    BY DEF CustodyInv, Unsettled
  <2>2. "idle" \notin QueuedKeepers /\ "idle" \notin ProcessingKeepers
    BY DEF QueuedKeepers, ProcessingKeepers, Attempting
  <2> QED
    BY <2>1, <2>2 DEF KeptBy, EventKeeps, InCustody, Holds
<1> HIDE DEF I
<1> QED
  BY <1>1, <1>2, <1>3, PTL DEF Spec

-----------------------------------------------------------------------------
(* A message of the legacy queue whose class that queue does not serve.    *)
(* The claim alone does not stop it: what does is that every job of it,    *)
(* wherever retries and crashes have taken it, still has the queue's       *)
(* class, so that every handler leaves at the comparison, and that its     *)
(* event, published by the earlier release, is not published again.        *)
Beyond == {"prepare", "slot", "send", "record"}

Misrouted(m) ==
    /\ accepted[m] = 0
    /\ published[m]
    /\ \A p \in Publishers : m \notin batch[p] /\ current[p] # m
    /\ \A j \in Jobs : j.msg = m /\ queue[j] > 0 => j.cls = LegacyClass
    /\ \A w \in Workers : pc[w] # "idle" /\ Msg(w) = m =>
         job[w].cls = LegacyClass /\ pc[w] \notin Beyond

LEMMA InitMisrouted ==
    ASSUME NEW m \in Legacy, Init
    PROVE  Misrouted(m)
<1>1. m \in Messages /\ None \notin Messages
  BY PipelineAssumption
<1>2. ASSUME NEW j \in Jobs, j.msg = m, queue[j] > 0
      PROVE  j.cls = LegacyClass
  <2>1. j = LegacyJob(m)
    BY <1>2 DEF Init
  <2> QED
    BY <2>1 DEF LegacyJob
<1> QED
  BY <1>1, <1>2 DEF Init, Misrouted

(* Steps that touch neither queues nor handlers nor the outbox.            *)
LEMMA FrameMisrouted ==
    ASSUME NEW m \in Messages, Misrouted(m),
           UNCHANGED <<accepted, published, batch, current, queue, pc, job>>
    PROVE  Misrouted(m)'
  BY DEF Misrouted, Msg

LEMMA PublisherMisrouted ==
    ASSUME Typed, NEW m \in Messages, Misrouted(m), NEW p \in Publishers, PublisherStep(p)
    PROVE  Misrouted(m)'
<1> USE DEF Typed, TypeOK, Misrouted, Msg
<1>0. None \notin Messages
  BY PipelineAssumption
<1>1. CASE ClaimEvents(p)
  BY <1>1 DEF ClaimEvents, ClaimableEvent
<1>2. ASSUME NEW n \in Messages, Publish(p, n) \/ PublishUnconfirmed(p, n)
      PROVE  Misrouted(m)'
  <2>1. n # m /\ FirstJob(n) \in Jobs /\ FirstJob(n).msg = n
    BY <1>2, JobFields DEF Publish, PublishUnconfirmed
  <2>2. queue' = [queue EXCEPT ![FirstJob(n)] = @ + 1]
    BY <1>2 DEF Publish, PublishUnconfirmed
  <2>3. \A j \in Jobs : j.msg = m => queue'[j] = queue[j]
    BY <2>1, <2>2
  <2> QED
    BY <1>2, <2>1, <2>3 DEF Publish, PublishUnconfirmed
<1>3. ASSUME NEW n \in Messages, PublishFails(p, n)
      PROVE  Misrouted(m)'
  BY <1>3 DEF PublishFails
<1>4. CASE MarkPublished(p)
  BY <1>0, <1>4 DEF MarkPublished, NextEvent
<1>5. CASE MarkPublishedFails(p)
  BY <1>5 DEF MarkPublishedFails
<1>6. CASE ReleaseEvent(p)
  BY <1>0, <1>6 DEF ReleaseEvent, NextEvent
<1>7. CASE FlushAborts(p)
  BY <1>0, <1>7 DEF FlushAborts
<1> QED
  BY <1>1, <1>2, <1>3, <1>4, <1>5, <1>6, <1>7 DEF PublisherStep

LEMMA DeliverMisrouted ==
    ASSUME Typed, NEW m \in Messages, Misrouted(m),
           NEW w \in Workers, NEW j \in Jobs, Deliver(w, j)
    PROVE  Misrouted(m)'
<1>1. \A i \in Jobs : queue'[i] > 0 => queue[i] > 0
  BY DEF Typed, TypeOK, Deliver
<1>2. queue[j] > 0
  BY DEF Deliver
<1> QED
  BY <1>1, <1>2 DEF Typed, TypeOK, Misrouted, Msg, Deliver, Goto, Beyond

(* A handler that moves on without going beyond the comparison.            *)
LEMMA GotoMisrouted ==
    ASSUME Typed, NEW m \in Messages, Misrouted(m), NEW w \in Workers, NEW label,
           pc[w] # "idle", Goto(w, label), Msg(w) = m => label \notin Beyond,
           UNCHANGED <<accepted, published, batch, current, queue, job>>
    PROVE  Misrouted(m)'
  BY DEF Typed, TypeOK, Misrouted, Msg, Goto

(* A copy of a handler's job, with whatever count, is queued again.        *)
LEMMA RequeueMisrouted ==
    ASSUME Typed, NEW m \in Messages, Misrouted(m), NEW w \in Workers, pc[w] # "idle",
           NEW j \in Jobs, j.msg = Msg(w), j.cls = job[w].cls,
           queue' = [queue EXCEPT ![j] = @ + 1]
    PROVE  \A i \in Jobs : i.msg = m /\ queue'[i] > 0 => i.cls = LegacyClass
<1> SUFFICES ASSUME NEW i \in Jobs, i.msg = m, queue'[i] > 0
             PROVE  i.cls = LegacyClass
  OBVIOUS
<1>1. CASE i = j
  BY <1>1 DEF Misrouted
<1>2. CASE i # j
  BY <1>2 DEF Misrouted, Typed, TypeOK
<1> QED
  BY <1>1, <1>2

LEMMA HandlerMisrouted ==
    ASSUME Typed, NEW m \in Messages, ClassOf[m] # LegacyClass, Misrouted(m),
           NEW w \in Workers, HandlerStep(w)
    PROVE  Misrouted(m)'
<1>1. /\ pc[w] # "idle" => job[w] \in Jobs /\ job[w].msg = Msg(w)
      /\ pc[w] # "idle" /\ Msg(w) = m => job[w].cls = LegacyClass /\ pc[w] \notin Beyond
  BY DEF Typed, HandlerInv, Misrouted, Msg
<1>2. CASE ReloadWon(w)
  BY <1>1, <1>2, GotoMisrouted DEF ReloadWon, Beyond
<1>3. CASE ResolveSender(w) \/ WaitForOutboundSlot(w) \/ SendRefused(w) \/ RecordFails(w)
  <2>1. PICK label : Goto(w, label)
    BY <1>3 DEF ResolveSender, WaitForOutboundSlot, SendRefused, RecordFails
  <2>2. pc[w] \in Beyond /\ pc[w] # "idle" /\ Msg(w) # m
    BY <1>1, <1>3 DEF ResolveSender, WaitForOutboundSlot, SendRefused, RecordFails, Beyond
  <2>3. UNCHANGED <<accepted, published, batch, current, queue, job>>
    BY <1>3 DEF ResolveSender, WaitForOutboundSlot, SendRefused, RecordFails
  <2> QED
    BY <2>1, <2>2, <2>3, GotoMisrouted
<1>4. CASE SendAccepted(w) \/ SendAcceptedWithoutId(w) \/ SendAnswerLost(w)
  <2>1. pc[w] = "send" /\ Msg(w) # m
    BY <1>1, <1>4 DEF SendAccepted, SendAcceptedWithoutId, SendAnswerLost, Beyond
  <2>2. accepted'[m] = accepted[m]
    BY <1>4, <2>1 DEF SendAccepted, SendAcceptedWithoutId, SendAnswerLost, Typed, TypeOK
  <2> QED
    BY <1>4, <2>1, <2>2
       DEF SendAccepted, SendAcceptedWithoutId, SendAnswerLost, Misrouted, Msg, Goto, Typed, TypeOK
<1>5. CASE ClaimMessage(w) \/ ReloadLost(w) \/ RecordSubmitted(w) \/ MarkRetryableFailure(w)
           \/ MarkFailed(w) \/ MarkRetryExhausted(w) \/ RetriesExhausted(w)
           \/ PublishDeadLetter(w)
  <2> USE DEF ClaimMessage, ReloadLost, RecordSubmitted, MarkRetryableFailure, MarkFailed,
              MarkRetryExhausted, RetriesExhausted, PublishDeadLetter
  <2>1. PICK label : Goto(w, label) /\ label \notin Beyond
    BY <1>5 DEF Beyond
  <2>2. pc[w] # "idle" /\ UNCHANGED <<accepted, published, batch, current, queue, job>>
    BY <1>5
  <2> QED
    BY <2>1, <2>2, GotoMisrouted
<1>6. CASE ScheduleRetry(w)
  <2>1. /\ [job[w] EXCEPT !.attempt = @ + 1] \in Jobs
        /\ [job[w] EXCEPT !.attempt = @ + 1].msg = Msg(w)
        /\ [job[w] EXCEPT !.attempt = @ + 1].cls = job[w].cls
    BY <1>1, <1>6, NextAttempt DEF ScheduleRetry
  <2>2. \A i \in Jobs : i.msg = m /\ queue'[i] > 0 => i.cls = LegacyClass
    BY <1>6, <2>1, RequeueMisrouted DEF ScheduleRetry
  <2> QED
    BY <1>6, <2>2 DEF ScheduleRetry, Misrouted, Msg, Goto, Beyond, Typed, TypeOK
<1>7. CASE ScheduleDeferredRetry(w)
  <2>1. \A i \in Jobs : i.msg = m /\ queue'[i] > 0 => i.cls = LegacyClass
    BY <1>1, <1>7, RequeueMisrouted DEF ScheduleDeferredRetry
  <2> QED
    BY <1>7, <2>1 DEF ScheduleDeferredRetry, Misrouted, Msg, Goto, Beyond, Typed, TypeOK
<1>8. CASE Ack(w)
  BY <1>8 DEF Ack, Misrouted, Msg, Goto, Typed, TypeOK
<1>9. CASE ChannelClosedCrash(w)
  BY <1>9 DEF ChannelClosedCrash, DropHandler, Misrouted, Msg, Goto, Typed, TypeOK
<1> QED
  BY <1>2, <1>3, <1>4, <1>5, <1>6, <1>7, <1>8, <1>9 DEF HandlerStep

LEMMA InterruptionMisrouted ==
    ASSUME Typed, NEW m \in Messages, Misrouted(m), NEW w \in Workers, Interruption(w)
    PROVE  Misrouted(m)'
<1>1. pc[w] # "idle" => job[w] \in Jobs /\ job[w].msg = Msg(w)
  BY DEF Typed, HandlerInv, Msg
<1>2. \A i \in Jobs : i.msg = m /\ queue'[i] > 0 => i.cls = LegacyClass
  <2>1. CASE queue' = queue
    BY <2>1 DEF Misrouted
  <2>2. CASE pc[w] # "idle" /\ queue' = [queue EXCEPT ![job[w]] = @ + 1]
    BY <1>1, <2>2, RequeueMisrouted
  <2> QED
    BY <2>1, <2>2 DEF Interruption, HandlerThrows, Crash, Restart, ConnectionClosed
<1>3. CASE HandlerThrows(w) \/ Crash(w)
  BY <1>2, <1>3 DEF HandlerThrows, Crash, DropHandler, Misrouted, Msg, Goto, Typed, TypeOK
<1>4. CASE Restart(w) \/ ConnectionClosed(w)
  BY <1>2, <1>4 DEF Restart, ConnectionClosed, Misrouted, Msg
<1> QED
  BY <1>3, <1>4 DEF Interruption

LEMMA NextMisrouted ==
    ASSUME Typed, NEW m \in Messages, ClassOf[m] # LegacyClass, Misrouted(m), [Next]_vars
    PROVE  Misrouted(m)'
<1>1. CASE UNCHANGED vars
  BY <1>1, FrameMisrouted DEF vars
<1>2. CASE \E n \in Messages : Create(n) \/ EventLeaseExpires(n) \/ LeaseExpires(n)
  BY <1>2, FrameMisrouted DEF Create, EventLeaseExpires, LeaseExpires
<1>3. CASE \E n \in Messages, s \in ReceiptStatus : ApplyStatus(n, s)
  BY <1>3, FrameMisrouted DEF ApplyStatus
<1>4. CASE \E p \in Publishers : PublisherStep(p)
  BY <1>4, PublisherMisrouted
<1>5. CASE \E w \in Workers, j \in Jobs : Deliver(w, j)
  BY <1>5, DeliverMisrouted
<1>6. CASE \E w \in Workers : HandlerStep(w) \/ Interruption(w)
  BY <1>6, HandlerMisrouted, InterruptionMisrouted
<1> QED
  BY <1>1, <1>2, <1>3, <1>4, <1>5, <1>6 DEF Next

(* A message whose job sits in the queue of another class is never sent    *)
(* (MismatchFailsClosed), through any number of retries, deferrals,        *)
(* crashes and redeliveries of that job.                                   *)
THEOREM MismatchNeverSent == Spec => []MismatchFailsClosed
<1> DEFINE I == Typed /\ \A m \in Legacy : ClassOf[m] # LegacyClass => Misrouted(m)
<1>1. Init => I
  BY InitTyped, InitMisrouted
<1>2. I /\ [Next]_vars => I'
  BY NextTyped, NextMisrouted, PipelineAssumption
<1>3. I => MismatchFailsClosed
  BY DEF MismatchFailsClosed, Misrouted
<1> HIDE DEF I
<1> QED
  BY <1>1, <1>2, <1>3, PTL DEF Spec
==============================================================================
