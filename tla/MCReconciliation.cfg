\* Two requests at a time, one failing call or restart.
SPECIFICATION FairSpec
CONSTANTS
    o1 = o1
    starter = starter
    monthly = monthly
    Orgs = {o1}
    Tiers = {starter}
    Intervals = {monthly}
    Workers = {w1, w2}
    Events <- MCEvents
    References = {1, 3}
    Outcomes = {"success", "failed"}
    OpenPayments = 1
    MaxFaults = 1
INVARIANTS TypeOK PaidOnlyIfCollected AckedMeansPaidWithoutFaults
PROPERTIES EventuallyAcked BooksFollowTheProvider
CHECK_DEADLOCK FALSE
