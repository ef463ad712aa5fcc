\* Two lists of one comercial that share a combo or two, three revisions, two
\* requests at a time; one price, revisions differ by the combos they cover.
CONSTANTS
    None = None
    Lists = {l1, l2}
    Combos = {k1, k2}
    Prices = {1}
    MaxRevision = 3
    Handlers = {h1, h2}
    MaxRequests = 6
SPECIFICATION Spec
SYMMETRY Symmetry
INVARIANTS OneSpecialPrice OnlyReviewedPrices NothingStandsInTheWay
PROPERTIES PricesChangeByDecision
