\* One request of each component at a time, both over the same tables.
SPECIFICATION Spec
CONSTANTS
    o1 = o1
    starter = starter
    growth = growth
    monthly = monthly
    Orgs = {o1}
    Tiers = {starter, growth}
    Intervals = {monthly}
    Handlers = {h1}
    Price <- MCPrice
    Months <- MCMonths
    CallsFail = TRUE
    MaxSubs = 2
    MaxInvoices = 2
    MaxEvents = 2
    MaxNow = 0
    MaxEnd = 2
    Workers = {w1}
    Events <- MCEvents
    References = {1}
    Outcomes = {"success", "failed"}
    OpenPayments = 0
    MaxFaults = 0
INVARIANTS TypeOK PaidOnlyIfCollected PastDueOnlyIfRefused
CHECK_DEADLOCK FALSE
