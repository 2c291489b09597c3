\* A peer whose session ends within its window. The adapter really stops when its
\* helper fails, so a state without a successor is no error.
CONSTANTS
    Peers = {a, b}
    Requests = {r1, r2}
    Messages <- MCMessages
    Total <- MCTotal
    Kind <- MCKind
    MaxLength = 2
    MaxSessions = 1
    MaxAttempts = 2
    FrameTime = 1
    Window = 3
    MaxTime = 4
    None = None
SPECIFICATION MonitoredSpec
CHECK_DEADLOCK FALSE
INVARIANTS AttemptsBoundedPerPeer
