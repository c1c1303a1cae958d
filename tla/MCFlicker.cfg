SPECIFICATION Spec
CONSTANTS
    u1 = u1
    u2 = u2
    u3 = u3
    Units = {u1, u2}
    Superiors = {}
    Outputs = {out1}
    Addresses = {led1}
    NumMappings = 1
    Values = {0, 1}
    Off = 0
    NotSent = NotSent
    NoDevice = NoDevice
    SettingsChoices <- AnyOutput
    Ops <- AnythingButRemoval
    LoadedAfter <- AnyOrder
    Bulk = 2
    MaxPending = 0
PROPERTIES
    LightsNeverFlicker
CHECK_DEADLOCK FALSE
