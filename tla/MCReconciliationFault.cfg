\* One request at a time; a call may fail between the payment and its invoice.
SPECIFICATION Spec
CONSTANTS
    o1 = o1
    starter = starter
    monthly = monthly
    Orgs = {o1}
    Tiers = {starter}
    Intervals = {monthly}
    Workers = {w1}
    Events <- MCEvents
    References = {1, 3}
    Outcomes = {"success", "failed"}
    OpenPayments = 1
    MaxFaults = 1
INVARIANT AckedMeansPaid
CHECK_DEADLOCK FALSE
