SPECIFICATION Spec
CONSTANTS
    d1 = d1
    m1 = m1
    None = None
    CompartmentKinds <- MainOnly
    Mappings = {m1}
    Destinations = {d1}
    QueueCapacity = 3
    RequestCapacity = 1
    BulkSize = 2
    NewMappings <- On
    Ops <- SwitchesOnly
    Mishaps = {"MainOvertakesDiscard"}
    FirstRuns = {"never"}
    MaxChanges = 3
    MaxOutages = 2
INVARIANTS
    RtMirrorsMain
CHECK_DEADLOCK FALSE
