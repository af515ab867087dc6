SPECIFICATION CreaterepoSpec
CONSTANTS
    w1 = w1
    w2 = w2
    w3 = w3
    foo = foo
    bar = bar
    Workers <- MCWorkers
    TaskCount = 5
    Nevra <- MCNevra
    BuildTime <- MCBuildTime
    Href <- MCHref
    OldHrefs <- MCOldHrefs
    Fresh <- MCFresh
    SkipStat = FALSE
    XmlFails <- MCLastXmlFails
    p1 = p1
    p2 = p2
    p3 = p3
    Procs <- MCProcs
    IgnoreLock <- MCForcing
    Kills = 2
    LateSignals = FALSE
    Runs <- MCRuns
    Others <- MCOthers
    MaxRuns = 3
    MaxClock = 2
    r1 = r1
    r2 = r2
    rpm1 = rpm1
    rpm2 = rpm2
    old1 = old1
    new1 = new1
    sha1 = sha1
    sha256 = sha256
    Readers <- MCReaders
    Paths <- MCPaths
    Base <- MCBase
    Versions <- MCVersions
    Types <- MCTypes
    NoChecksum = NoChecksum
    MaxCalls = 3
    MaxChanges = 1
    MaxFaults = 1
SYMMETRY Symmetry
INVARIANTS
    OldUsedOnce
    KeepsLast
    
    
    
    
    NoStaleLock
    ChecksumsRight
 
