SPECIFICATION Spec
CONSTANTS
    u1 = u1
    u2 = u2
    u3 = u3
    Units = {u1, u2}
    Superiors = {u1}
    Outputs = {out1}
    Addresses = {led1}
    NumMappings = 1
    Values = {0, 1}
    Off = 0
    NotSent = NotSent
    NoDevice = NoDevice
    SettingsChoices <- EnabledSettings
    Ops <- ChangingSettings
    LoadedAfter <- SuperiorsLast
    Bulk = 2
    MaxPending = 1
INVARIANTS
    FloorsTakeEffect
CHECK_DEADLOCK FALSE
