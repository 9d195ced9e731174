SPECIFICATION Spec
CONSTANTS
    Images = {"v1"}
    Configs <- OneConfig
    NoConfig = 0
    InitSpecs <- Initial
    ImageEdits = {}
    ConfigEdits = {}
    Edits = {"pause"}
    Faults = {}
    MaxEdits = 1
    MaxFaults = 0
PROPERTY PauseStops
