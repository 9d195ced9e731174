CONSTANTS
    Instances <- MCInstances
    Groups <- MCGroups
    Tags = {"v0", "v1"}
    InitImages <- MCImages
    InitGroups <- MCFleet
    WaveOrders <- MCOrders
    InitOrders <- MCOrders
    Seeds = {"canary", "stable"}
    BatchSize = 1
    Modes = {"normal", "fast", "canary-only"}
    Controls = {"continue", "rollback", "abort", "restart", "fault", "list"}
    MaxDeploys = 1
    MaxTasks = 2
SPECIFICATION Spec
INVARIANTS TypeOK OneWorkerPerDeploy GateBeforeNextWave CompleteMeansGated InProgressHasWorker
PROPERTY ImplementsRelease
CHECK_DEADLOCK FALSE
