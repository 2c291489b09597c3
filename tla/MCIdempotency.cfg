\* Three calls race for one key, from two processes.
CONSTANTS
    Calls = {c1, c2, c3}
    Keys = {k1}
    Payloads = {w1, w2}
    Procs = {p1, p2}
    Kinds <- MCKinds
    Unconfirmed = "unconfirmed"
    Retention = 1
    MaxTime = 3
    None = None
SPECIFICATION Spec
SYMMETRY Symmetry
INVARIANTS TypeOK OneOperationPerKey UncertainKeepsKey RetainedAnswerReplays
    AnswerIsOwn InFlightIsExact
PROPERTIES RerunIsSafe KeepsContract
