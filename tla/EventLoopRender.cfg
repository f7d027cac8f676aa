SPECIFICATION FairSpec
CONSTANTS
    NoRealm = NoRealm
    NoTask = NoTask
    Main = main
    Realm = {main, frame}
    Windows = {}
    Handler = {h}
    Delay = {0}
    Period = {}
    Budget = {0, 1}
    MaxIter = {2}
    YieldModes = {FALSE}
    CanWrite <- OwnDocument
    CanObserve = {frame}
    MaxTimers = 1
    MaxRafs = 1
INVARIANTS
    TimersActiveSound
    FindCacheFresh
PROPERTIES
    StepTerminates
    IdleFlagDrops
