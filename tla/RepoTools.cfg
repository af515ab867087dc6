CONSTANTS
    Types <- MCTypes
    Data <- MCData
    XmlOf <- MCXmlOf
    DbTypes = {"primary_db", "filelists_db"}
    TaskLists <- MCTaskLists
    InitialDirs <- MCInitialDirs
    SqliteOptions <- MCSqliteOptions
    SqliteProcs = {"s1"}
    Calls = 1
    Kills = 1
SPECIFICATION Spec
INVARIANTS
    Undisturbed
    
    OnlyReplacedGo
CHECK_DEADLOCK FALSE
