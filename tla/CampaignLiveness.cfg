\* Two replicas and fair scheduling: one recipient with faults and a pause,
\* two recipients without either.
SPECIFICATION BoundedSpec
CONSTANTS
    Contacts = {c1, c2}
    Processors = {p1, p2}
    Requests = {r1}
    MaxAttempts = 2
    MaxFaults = 2
    MaxPauses = 1
    None = None
PROPERTIES
    RecipientsSettle
    CampaignEnds
CHECK_DEADLOCK FALSE
