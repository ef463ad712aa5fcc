\* Two requests at a time on one invoice, all operations, odd cents.
CONSTANTS
    None = None
    Payments = {p1, p2}
    Returns = {c1, c2}
    Handlers = {h1, h2}
    InvoiceTotal = 46
    Sums2Pay = {4, 11, 24}
    Percents = {0, 3750}
    Scale = 3
    Ops = {"pay", "return", "status", "liquidate"}
    MaxRequests = 5
SPECIFICATION Spec
SYMMETRY Symmetry
INVARIANTS TypeOK NoPhantomMoney
PROPERTIES KeepsLedger ClosedMeansCovered ReversalMatchesAccrual
