\* One integration, requests and workers in two processes.
SPECIFICATION FairSpec
CONSTANTS
    Integrations = {i1}
    Processes = {p1, p2}
    Provider <- MCOwnProvider
    Attempts = 2
    MaxGrants = 2
    MaxFaults = 1
VIEW MCView
INVARIANTS TypeOK PendingOnlyWhileSyncing IngestedOnce OneSyncAtATime ErrorIsLogged
PROPERTIES JobsEnd
