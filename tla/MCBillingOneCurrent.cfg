\* One request at a time, nothing fails, every payment succeeds.
SPECIFICATION Spec
CONSTANTS
    o1 = o1
    starter = starter
    growth = growth
    monthly = monthly
    Orgs = {o1}
    Tiers = {starter, growth}
    Intervals = {monthly}
    Handlers = {h1}
    Price <- MCPrice
    Months <- MCMonths
    CallsFail = FALSE
    MaxSubs = 2
    MaxInvoices = 2
    MaxEvents = 3
    MaxNow = 0
    MaxEnd = 2
    Workers = {w1}
    Events <- MCEvents
    References = {1}
    Outcomes = {"success"}
    OpenPayments = 0
    MaxFaults = 0
INVARIANT OneCurrent
CHECK_DEADLOCK FALSE
