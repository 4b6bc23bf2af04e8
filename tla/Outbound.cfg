\* A new message beside one left on the legacy queue, two workers, one publisher,
\* one fault and one broker close.
SPECIFICATION Spec
CONSTANTS
    m1 = m1
    m2 = m2
    Messages = {m1, m2}
    Workers = {w1, w2}
    Publishers = {p1}
    Classes <- TwoClasses
    ClassOf <- ClassOfBoth
    Legacy = {m2}
    LegacyClass = "TRANSACTIONAL"
    MaxRetries = 1
    MaxFaults = 1
    MaxDisconnects = 1
    None = None
SYMMETRY Replicas
INVARIANTS
    TypeOK
    NoMessageStranded
    DuplicatesExcused
    MismatchFailsClosed
CHECK_DEADLOCK FALSE
