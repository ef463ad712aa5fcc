\* Two orders, two requests at a time, every operation that moves credit.
CONSTANTS
    None = None
    Orders = {o1, o2}
    Items = {k1}
    Invoices = {i1, i2}
    Bills = {b1}
    Handlers = {h1, h2}
    Prices = {1, 2}
    Limit = 3
    Ops = {"create", "approve", "advance", "resolve", "invoice_order", "invoice_create", "invoice_status", "settle"}
    StartStatuses = {"recibido", "orden_facturacion"}
    MaxRequests = 3
SPECIFICATION Spec
SYMMETRY Symmetry
INVARIANTS CreditWithinLimit OneActiveInvoice
