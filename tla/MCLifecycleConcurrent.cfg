\* Two requests at a time, any awaited call may fail.
SPECIFICATION Spec
CONSTANTS
    starter = starter
    growth = growth
    monthly = monthly
    yearly = yearly
    Orgs = {o1}
    Handlers = {h1, h2}
    Tiers = {starter, growth}
    Intervals = {monthly}
    Price <- MCPrice
    Months <- MCMonths
    CallsFail = TRUE
    MaxSubs = 2
    MaxInvoices = 3
    MaxEvents = 2
    MaxEnd = 2
    MaxNow = 1
INVARIANTS TypeOK InvoiceNumbersGapFree PaymentsLinked RevenueBacked
SYMMETRY Requests
CHECK_DEADLOCK FALSE
