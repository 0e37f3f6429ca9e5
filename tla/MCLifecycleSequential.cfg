\* One request at a time and no failing call: what the handlers do when
\* they do not overlap.
SPECIFICATION Spec
CONSTANTS
    starter = starter
    growth = growth
    monthly = monthly
    yearly = yearly
    Orgs = {o1, o2}
    Handlers = {h1}
    Tiers = {starter, growth}
    Intervals = {monthly, yearly}
    Price <- MCPrice
    Months <- MCMonths
    CallsFail = FALSE
    MaxSubs = 3
    MaxInvoices = 4
    MaxEvents = 4
    MaxEnd = 9
    MaxNow = 1
INVARIANTS OneCurrent NoPeriodBilledTwice NothingHalfDone LedgerAddsUp
PROPERTIES CanceledStaysCanceled
CHECK_DEADLOCK FALSE
