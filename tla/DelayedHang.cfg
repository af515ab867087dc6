SPECIFICATION FairSpec
CONSTANTS
    w1 = w1
    w2 = w2
    w3 = w3
    foo = foo
    bar = bar
    Workers <- MCWorkers
    TaskCount = 5
    Nevra <- MCNevra
    BuildTime <- MCBuildTime
    Href <- MCHref
    OldHrefs <- MCOldHrefs
    Fresh <- MCFresh
    SkipStat = FALSE
    XmlFails <- MCXmlFails
CHECK_DEADLOCK FALSE
PROPERTIES
    Termination
