SPECIFICATION Spec
CONSTANTS
    Version <- ThreeVersions
    Established = 0
    Client = {c1}
    None = none
    Gone = gone
    Claiming = {1}
    Skipping = {2}
    Failing = {1}
    MaxMessages <- OneToTheFirst
CHECK_DEADLOCK FALSE
INVARIANTS
    TypeOK
    SlotsSound
    WakeupUnderway
    ClaimsBeforeActivated
    NoPhantoms
PROPERTIES
    RedundantIsFinal
    HandoverClean
