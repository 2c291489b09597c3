CONSTANTS
    Ops = {o1, o2}
    Invoices <- MCInvoices
    AmountOf <- MCAmountOf
    Fallbacks = {0, 2}
    MaxAmount = 2
    MaxAttempts = 2
    Replies <- AllReplies
    NoTask = NoTask
SPECIFICATION FairSpec
INVARIANTS PostedAtMostOnce SettledIsPaid DefiniteFailureMovesNothing PaidWithinLimit
PROPERTIES EveryOperationEnds
