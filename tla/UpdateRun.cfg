SPECIFICATION UpdateSpec
CONSTANTS
    Types <- MCUpdateTypes
    Data = {"A", "B", "none"}
    Options <- MCOptions
    InitialRepos <- MCRepos
    MaxUpdates = 3
    MaxChanges = 2
PROPERTIES
    SuccessSound
    
    RepodataClean
    Settles
CHECK_DEADLOCK FALSE
