SPECIFICATION Spec
CONSTANTS
    w1 = w1
    w2 = w2
    w3 = w3
    foo = foo
    bar = bar
    baz = baz
    qux = qux
    nil = nil
    big = big
    foo1 = foo1
    foo2 = foo2
    foo9 = foo9
    fooX = fooX
    bar1 = bar1
    foo1b = foo1b
    d1 = d1
    d2 = d2
    stale = stale
    Workers <- MCWorkers
    Targets <- MCTargets
    Size <- MCSize
    MaxDelta = 5
    MaxWork = 5
    NumDeltas = 1
    OldDirs = {d1, d2}
    OldRpms <- MCOldRpms
    Dir <- MCDir
    FileSize <- MCFileSize
    NameArch <- MCNameArch
    Evr <- MCEvr
    OldDrpms = {stale}
    DrpmOf <- MCDrpmOf
    NewNevra <- MCNewNevra
    NoTarget = NoTarget
    NoDrpm = NoDrpm
    Zck = TRUE
INVARIANTS
    WorkBounded
    SleepsOnlyWhenStuck
    NewestDeltas
    PrestoComplete
PROPERTIES
    Termination
\* The program ends.
CHECK_DEADLOCK FALSE
