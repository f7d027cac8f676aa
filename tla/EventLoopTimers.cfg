SPECIFICATION Spec
CONSTANTS
    NoRealm = NoRealm
    NoTask = NoTask
    Main = main
    Realm = {main, frame}
    Windows = {}
    Handler = {h}
    Delay = {1}
    Period = {1}
    Budget = {0, 2}
    MaxIter = {1}
    YieldModes <- BothModes
    CanWrite <- MainDocument
    CanObserve = {}
    MaxTimers = 2
    MaxRafs = 1
INVARIANTS
    TypeOK
    TimersActiveSound
    LatenessBounded
PROPERTIES
    ZeroBudgetHoldsClock
    OnlyPinMakesLate
