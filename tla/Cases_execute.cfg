\* An order case and an expense case, two requests at a time, two failures and
\* a restart.  Without symmetry: one property is a liveness property.
CONSTANTS
    None = None
    OrderCases = {c1}
    ExpenseCases = {c2}
    Rows = {r1, r2, r3, r4}
    Handlers = {h1, h2}
    MaxRequests = 4
    MaxFailures = 2
    MaxRestarts = 1
SPECIFICATION FairSpec
INVARIANTS ClaimIsExclusive OneRowPerCase
PROPERTY ClaimIsSettled
