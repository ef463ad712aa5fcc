\* Two payments, or two credit notes, at a time.
CONSTANTS
    None = None
    Payments = {p1, p2}
    Returns = {c1, c2}
    Handlers = {h1, h2}
    InvoiceTotal = 6
    Sums2Pay = {2, 3, 5}
    Percents = {0, 3750}
    Scale = 3
    Ops = {"pay", "return"}
    MaxRequests = 3
SPECIFICATION Spec
INVARIANT BalanceIsExact
