CONSTANTS
    Settings <- AllSettings
    MaxLosses = 1
    MaxFailures = 1
SPECIFICATION Spec
INVARIANTS
    TypeOK
    FlashHoldsRam
    OtherSettingsPersist
    NothingErased
PROPERTIES
    BootSanitises
    OneCopySurvives
