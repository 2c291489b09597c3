\* Two peers compete for one session. The adapter really stops when its
\* helper fails, so a state without a successor is no error.
CONSTANTS
    Peers = {a, b}
    Requests = {r1, r2, r3}
    Messages <- MCMessages
    Total <- MCTotal
    Kind <- MCKind
    MaxLength = 2
    MaxSessions = 1
    MaxAttempts = 2
    FrameTime = 1
    Window = 3
    MaxTime = 5
    None = None
SPECIFICATION Spec
SYMMETRY Symmetry
CHECK_DEADLOCK FALSE
INVARIANTS SessionsBounded Attended
PROPERTIES OrphansGetNoResponse
