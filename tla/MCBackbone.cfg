SPECIFICATION Spec
CONSTANTS
    d1 = d1
    d2 = d2
    t1 = t1
    t2 = t2
    saver = saver
    s1 = s1
    s2 = s2
    None = None
    Devices <- MCDevices
    Requesters <- MCRequesters
    Detectors <- MCDetectors
    Saver = saver
    Known <- MCDevices
    Sessions <- MCSessions
    Instances = {1, 2}
    UnitIds = {1, 2, 3, 4, 5, 6}
    TaskCapacity = 20
    DeallocatorCapacity = 8
    MaxCaptured = 2
    Stop = "stop"
    Mishaps <- NoMishaps
    Scenarios <- MCScenarios
INVARIANTS
    TypeOK
    HookMirrorsUnits
    AutoUnitsAreAccurate
    DevicesArePaired
    DetectionLeavesNoTraces
    CaptureMatchesPanel
    GarbageIsFreed
PROPERTIES
    FallsAsleep
    DetectionEnds
CHECK_DEADLOCK FALSE
