SPECIFICATION FairSpec
CONSTANTS
    Uids <- MCUids
    Configs <- MCConfigs
    NoConfig = 0
    Requests = {r1, r2}
    Kinds = {"create", "import", "update", "redeploy", "start", "stop", "restart", "delete", "force"}
    Faults = {"k8s", "db", "nas", "crd", "crash", "loss"}
    MaxFaults = 2
INVARIANTS TypeOK NothingForgotten DeletedIsGone BackupCurrent
PROPERTY SyncConverges
CHECK_DEADLOCK FALSE
