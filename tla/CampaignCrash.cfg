\* One crash of one replica.
SPECIFICATION FairSpec
CONSTANTS
    Contacts = {c1}
    Processors = {p1, p2}
    Requests = {r1}
    MaxAttempts = 1
    MaxFaults = 1
    MaxPauses = 0
    None = None
PROPERTY
    CampaignRecoversFromCrash
CHECK_DEADLOCK FALSE
