CONSTANTS
    Instances <- MCPair
    Groups <- MCThreeGroups
    Tags = {"v0", "v1"}
    InitImages <- MCPairImages
    InitGroups <- MCSplit
    WaveOrders <- MCRegistries
    InitOrders <- MCThreeOrdered
    Seeds = {"canary", "early", "stable"}
    BatchSize = 1
    Modes = {"normal", "early"}
    Controls = {"continue", "regroup", "registry", "restart", "list"}
    MaxDeploys = 1
    MaxTasks = 2
SPECIFICATION FairSpec
PROPERTIES DeploySettles
CHECK_DEADLOCK FALSE
