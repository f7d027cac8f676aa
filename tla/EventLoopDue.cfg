SPECIFICATION FairSpec
CONSTANTS
    NoRealm = NoRealm
    NoTask = NoTask
    Main = main
    Realm = {main, frame}
    Windows = {}
    Handler = {h, a}
    Delay = {0}
    Period = {1}
    Budget = {1}
    MaxIter = {1}
    YieldModes = {FALSE}
    CanWrite = {}
    CanObserve = {}
    MaxTimers = 2
    MaxRafs = 0
PROPERTIES
    DueTaskRuns
