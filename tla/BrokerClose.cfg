\* One broker-side close of one worker's connection, no other fault.
SPECIFICATION Spec
CONSTANTS
    m1 = m1
    m2 = m2
    Messages = {m1}
    Workers = {w1, w2}
    Publishers = {p1}
    Classes <- OneClass
    ClassOf <- ClassOfOne
    Legacy = {}
    LegacyClass = "TRANSACTIONAL"
    MaxRetries = 1
    MaxFaults = 0
    MaxDisconnects = 1
    None = None
INVARIANT
    AcceptedWorkSurvivesBroker
CHECK_DEADLOCK FALSE
