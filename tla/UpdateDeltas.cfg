SPECIFICATION UpdateSpec
CONSTANTS
    Types <- MCUpdateTypes
    Data = {"A", "B", "none"}
    Options <- MCOptions
    InitialRepos <- MCRepos
    MaxUpdates = 3
    MaxChanges = 2
PROPERTY DeltasAsMade
CHECK_DEADLOCK FALSE
