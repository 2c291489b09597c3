\* Two clients, two requests in a window of three ticks, a second of two ticks.
\* Six ticks: every stretch of three that meets two windows.
CONSTANTS
    Clients = {x, y}
    Limit = 2
    Window = 3
    Second = 2
    ManyBuckets = 1
    MaxTime = 6
    NoBucket = NoBucket
SPECIFICATION Spec
SYMMETRY Symmetry
CONSTRAINT FewRefused
INVARIANTS TwiceTheLimit RetryAfterSuffices
