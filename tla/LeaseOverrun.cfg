\* No fault at all, one lease that expires while its worker waits for a rate slot.
SPECIFICATION Spec
CONSTANTS
    m1 = m1
    m2 = m2
    Messages = {m1}
    Workers = {w1, w2}
    Publishers = {p1, p2}
    Classes <- OneClass
    ClassOf <- ClassOfOne
    Legacy = {}
    LegacyClass = "TRANSACTIONAL"
    MaxRetries = 0
    MaxFaults = 0
    MaxDisconnects = 0
    None = None
INVARIANT
    LeaseExcludesConcurrentSends
CHECK_DEADLOCK FALSE
