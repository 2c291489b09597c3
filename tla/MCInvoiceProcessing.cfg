\* Two operations, two invoices to make, one stored request, two nodes.
CONSTANTS
    b0 = b0
    b1 = b1
    b2 = b2
    o1 = o1
    o2 = o2
    n1 = n1
    n2 = n2
    r = r
    Ops <- MCOps
    Requests = {r}
    Bolts <- MCBolts
    Foreign = {f}
    ClockIds = {t}
    LegacyInvoices <- MCLegacy
    LegacyNodes <- MCLegacyNodes
    Nodes <- MCNodes
    DefaultNode = n2
    None = None
SPECIFICATION Spec
SYMMETRY Symmetry
INVARIANTS ToldIsStored LinkIsLatest ToldInvoicesAreNotPaid InvoiceNodeIsKnown ActivationTakesEffect
PROPERTIES InvoicesAreKept
