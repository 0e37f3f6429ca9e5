\* Two integrations of the same provider, one process, nothing fails.
SPECIFICATION Spec
CONSTANTS
    Integrations = {i1, i2}
    Processes = {p1}
    Provider <- MCSameProvider
    Attempts = 2
    MaxGrants = 1
    MaxFaults = 0
INVARIANT OwnCredential
