CONSTANTS
    Settings <- RampOnly
    MaxLosses = 0
    MaxFailures = 0
SPECIFICATION Spec
INVARIANT
    PowerSettingsPersist
