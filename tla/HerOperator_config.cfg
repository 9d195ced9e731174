SPECIFICATION Spec
CONSTANTS
    Images = {"v1"}
    Configs <- ThreeConfigs
    NoConfig = 0
    InitSpecs <- Initial
    ImageEdits = {}
    ConfigEdits <- Revisions
    Edits = {"config", "pause"}
    Faults = {"api", "drop"}
    MaxEdits = 2
    MaxFaults = 1
PROPERTY ConfigConverges
PROPERTY BotsCurrent
