\* The page submits two invoices in three requests. Liveness: no symmetry.
\* The user may stop, so a state without a successor is no error.
CONSTANTS
    Submissions = {s1, s2, s3}
    Calls = {c1, c2}
    Keys = {k1, k2, k3}
    Procs = {p1}
    Retention = 1
    MaxTime = 0
    None = None
    Invoices <- MCInvoices
    AmountOf <- MCAmountOf
    Fallbacks = {0}
    MaxAmount = 1
    MaxAttempts = 1
    Replies <- MCReplies
    Payloads <- MCPayloads
    Own = {}
SPECIFICATION PageSpec
CHECK_DEADLOCK FALSE
INVARIANTS UnconfirmedKeepsKey
