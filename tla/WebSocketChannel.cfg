SPECIFICATION FairSpec
CONSTANTS
    a = a
    b = b
    Socket <- Sockets
    MaxMessages <- OneFrame
INVARIANTS
    TypeOK
    LifecycleOrder
    MessagesInOrder
    EndUnderway
    HoldIsOwed
    HoldLostOnlyToOthers
PROPERTY
    ClockResumes
