\* One conversation, one team, a reply and a move in flight; two processors on
\* two deliveries that share a message, one of them with an unknown sender; and
\* a batch of failing deliveries before or after one that is not.
SPECIFICATION Spec
CONSTANTS
    e1 = e1
    e2 = e2
    e3 = e3
    e4 = e4
    e5 = e5
    i1 = i1
    i2 = i2
    i3 = i3
    o1 = o1
    Teams = {t1}
    NoTeam = NoTeam
    Policies = {1}
    Replies = {r1}
    Movers = {m1}
    MaxTime = 3
    MaxUnread = 1
    Events = {e1, e2, e3, e4, e5}
    Payload <- Deliveries
    Inbounds = {i1, i2, i3}
    SentAt <- Timestamps
    Outbounds = {o1}
    Processors = {p1, p2}
    ServiceWindow = 2
    MaxFaults = 1
    BatchSizes = {1, 2}
    Nobody = Nobody
INVARIANTS
    CycleCheckHolds
    WaitingHasNoReply
    InboundCountsOnce
    ProcessedIsComplete
    ReceiptsCommute
PROPERTIES
    DeadlineIsFixed
    OverdueIsEscalated
    EventsAreProcessed
CHECK_DEADLOCK FALSE
