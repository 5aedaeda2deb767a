CONSTANTS
    Settings <- NoSettings
    MaxLosses = 1
    MaxFailures = 0
SPECIFICATION Spec
INVARIANT
    CompleteMeansAll
