SPECIFICATION Spec
CONSTANTS
    u1 = u1
    u2 = u2
    u3 = u3
    Units = {u1, u2}
    Superiors = {}
    Outputs = {out1}
    Addresses = {led1}
    NumMappings = 2
    Values = {0, 1}
    Off = 0
    NotSent = NotSent
    NoDevice = NoDevice
    SettingsChoices <- EnabledSettings
    Ops <- Sharing
    LoadedAfter <- AnyOrder
    Bulk = 2
    MaxPending = 1
INVARIANTS
    TypeOK
    UnusedLightsAreOff
    UsedLightsAreCurrent
CHECK_DEADLOCK FALSE
