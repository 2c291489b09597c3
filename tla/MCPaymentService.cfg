\* Three calls share one key.
CONSTANTS
    Calls = {c1, c2, c3}
    Keys = {k1}
    Procs = {p1, p2}
    Retention = 1
    MaxTime = 2
    None = None
    Invoices <- MCInvoices
    AmountOf <- MCAmountOf
    Fallbacks = {0}
    MaxAmount = 1
    MaxAttempts = 2
    Replies <- MCReplies
    Payloads <- MCPayloads
    Own = {"own"}
SPECIFICATION Spec
SYMMETRY Symmetry
INVARIANTS OnePaymentPerKey SettledAnswerIsPaid FailedAnswerMovesNothing
