SPECIFICATION Spec
CONSTANTS
    u1 = u1
    u2 = u2
    u3 = u3
    Units = {u1, u2, u3}
    Superiors = {u1}
    Outputs = {out1}
    Addresses = {led1, led2}
    NumMappings = 1
    Values = {0, 1}
    Off = 0
    NotSent = NotSent
    NoDevice = NoDevice
    SettingsChoices <- EnabledSettings
    Ops <- ComingAndGoing
    LoadedAfter <- SuperiorsLast
    Bulk = 2
    MaxPending = 0
INVARIANTS
    UsagesAreAccurate
    FloorsTakeEffect
PROPERTIES
    LightsConverge
CHECK_DEADLOCK FALSE
