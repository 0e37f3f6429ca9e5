\* Two overlapping deliveries of an event, nothing fails.
SPECIFICATION Spec
CONSTANTS
    o1 = o1
    starter = starter
    monthly = monthly
    Orgs = {o1}
    Tiers = {starter}
    Intervals = {monthly}
    Workers = {w1, w2}
    Events <- MCEvents
    References = {1, 3}
    Outcomes = {"success", "failed"}
    OpenPayments = 1
    MaxFaults = 0
PROPERTY ProcessedIsFinal
CHECK_DEADLOCK FALSE
