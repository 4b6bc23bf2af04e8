\* Two recipients, two processor replicas, two concurrent lifecycle requests,
\* one pause, one fault.
SPECIFICATION Spec
CONSTANTS
    Contacts = {c1, c2}
    Processors = {p1, p2}
    Requests = {r1, r2}
    MaxAttempts = 1
    MaxFaults = 1
    MaxPauses = 1
    None = None
SYMMETRY Replicas
INVARIANTS
    CompletedMeansDone
    MessageIsAccounted
    PendingWasInFlight
PROPERTY
    OutcomesAreFinal
CHECK_DEADLOCK FALSE
