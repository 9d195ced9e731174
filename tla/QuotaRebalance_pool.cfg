SPECIFICATION FairSpec
CONSTANTS
    MaxRuns = 2
    Models = {m1, m2}
    Asked = m1
    CanRepair = TRUE
    Threshold = 2
    MaxFails = 2
    MaxRepairs = 1
    MaxCredits = 1
    MaxEvents = 2
INVARIANTS TypeOK HealthyStaysOnline PodsBeforeEntries
PROPERTIES Settles
CHECK_DEADLOCK FALSE
