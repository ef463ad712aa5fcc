\* One row of each kind and a report; six requests two at a time, one failure.
CONSTANTS
    None = None
    Unsent = Unsent
    Handlers = {h1, h2}
    Visits = {v1}
    Tasks = {t1}
    Opportunities = {o1}
    Expenses = {e1}
    Reports = {p1}
    Reachable = {e1}
    Data = {d1, d2}
    MaxRequests = 6
    MaxFailures = 1
SYMMETRY MCSymmetry
SPECIFICATION Spec
INVARIANTS OutcomesAgree NoGhostNotice SupportsAgree CorrectionIsAsked ReportsOfHeldVisits
PROPERTY KeepsTables
