SPECIFICATION Spec
CONSTANTS
    a = a
    b = b
    Socket <- Sockets
    MaxMessages <- NoFrames
PROPERTY
    ClockHeldForClose
