\* One order of two lines, its billing request and its invoice, two requests
\* at a time that contend for the customer row: the statuses, the review, the
\* billing, and that every request is answered.
CONSTANTS
    None = None
    Orders = {o1}
    Items = {k1, k2}
    Invoices = {i1}
    Bills = {b1}
    Handlers = {h1, h2}
    Prices = {1}
    Limit = 2
    Ops = {"create", "approve", "reject", "advance", "resolve", "invoice_order", "logistics", "billing_open", "billing_set"}
    StartStatuses = {"absent", "recibido", "orden_facturacion", "despachado"}
    MaxRequests = 4
SPECIFICATION FairSpec
PROPERTIES EveryRequestAnswered OnlyStaleWritesGoBack
