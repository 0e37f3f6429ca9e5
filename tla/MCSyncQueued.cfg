\* One integration, one process, nothing fails.
SPECIFICATION Spec
CONSTANTS
    Integrations = {i1}
    Processes = {p1}
    Provider <- MCOwnProvider
    Attempts = 2
    MaxGrants = 1
    MaxFaults = 0
PROPERTY QueuedMeansQueued
