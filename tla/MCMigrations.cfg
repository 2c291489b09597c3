\* Two processes prepare one database and claim two keys.
CONSTANTS
    Keys = {k1, k2}
    Procs = {p, q}
    Retention = 1
    MaxTime = 3
    None = None
SPECIFICATION Spec
SYMMETRY Symmetry
INVARIANTS TypeOK OpenHistoryIsNotRerun UncertainIsNotReplayed
PROPERTIES AnsweredHistoryIsKept ImportedOnce OwnAnswersStay
