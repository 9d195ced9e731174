SPECIFICATION Spec
CONSTANTS
    MaxUid = 2
    Keys <- MCKeys
    Policies = {"p", "q"}
    DefaultPolicy = "p"
    Requests = {r1, r2}
    Kinds = {"create", "import", "update", "keygen", "delete"}
    InitStates <- MCStates
    Faults = {"list", "litellm", "write", "lost", "nocrd", "crash"}
    MaxFaults = 2
INVARIANTS TypeOK KeyIsLive NoKeyLost PolicyAgrees
CHECK_DEADLOCK FALSE
