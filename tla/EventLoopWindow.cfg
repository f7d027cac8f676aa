SPECIFICATION Spec
CONSTANTS
    NoRealm = NoRealm
    NoTask = NoTask
    Main = main
    Realm = {main, popup}
    Windows = {popup}
    Handler = {h}
    Delay = {0}
    Period = {}
    Budget = {0, 1}
    MaxIter = {2}
    YieldModes = {FALSE}
    CanWrite = {}
    CanObserve = {}
    MaxTimers = 1
    MaxRafs = 0
INVARIANTS
    TimersActiveSound
