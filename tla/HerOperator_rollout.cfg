SPECIFICATION Spec
CONSTANTS
    Images <- TwoImages
    Configs <- OneConfig
    NoConfig = 0
    InitSpecs <- Initial
    ImageEdits <- Releases
    ConfigEdits = {}
    Edits = {"image", "pause"}
    Faults = {"api", "get", "probe", "restart", "crash"}
    MaxEdits = 2
    MaxFaults = 1
INVARIANT TypeOK
INVARIANT Serving
PROPERTY RolloutConverges
PROPERTY StatusConverges
PROPERTY ImplementsService
