SPECIFICATION FilesSpec
CONSTANTS
    NPackages = 3
    MaxRoom = 11
    Jobs <- MCJobs
    Unknown <- MCUnknown
    x = x
    y = y
    foo = foo
    bar = bar
    foo1 = foo1
    foo2 = foo2
    foo3 = foo3
    foo4 = foo4
    bar1 = bar1
    Elems <- MCElems
    PkgId <- MCPkgId
    Basename <- MCBasename
    Stat <- MCStat
    Key <- MCKey
    Inputs <- MCInputs
INVARIANTS
    StatusTells
    
    Preserved
    InStep
    LoadedRight
PROPERTY OldUntilNew
\* Each of the three programs ends.
CHECK_DEADLOCK FALSE
