SPECIFICATION Spec
CONSTANTS
    Instances = {i1, i2}
    Infra = infra
    Other = other
    Starts <- MCStarts
    Requests = {r1, r2, r3}
    Kinds = {"add", "delete", "sync"}
    Faults = {"call", "answer", "list", "service", "row", "crash"}
    MaxFaults = 1
INVARIANTS TypeOK RoutesFollow
SYMMETRY MCSymmetry
CHECK_DEADLOCK FALSE
