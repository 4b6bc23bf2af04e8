\* One message, two workers, one publisher, one fault, fair scheduling.
SPECIFICATION FairSpec
CONSTANTS
    m1 = m1
    m2 = m2
    Messages = {m1}
    Workers = {w1, w2}
    Publishers = {p1}
    Classes <- OneClass
    ClassOf <- ClassOfOne
    Legacy = {}
    LegacyClass = "TRANSACTIONAL"
    MaxRetries = 1
    MaxFaults = 1
    MaxDisconnects = 0
    None = None
PROPERTIES
    Settles
    QueueDrains
CHECK_DEADLOCK FALSE
