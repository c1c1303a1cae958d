SPECIFICATION Spec
CONSTANTS
    p = p
    trackA = trackA
    trackB = trackB
    a = a
    b = b
    button = button
    None = None
    Inactive = Inactive
    NoTrack = NoTrack
    Params = {p}
    ParamValues = {0, 1, 2}
    Presets <- OnePreset
    MappingCount = 3
    Layouts <- TwoLayouts
    Tracks = {trackA, trackB}
    Switches = {a, b}
    Messages <- ButtonMessages
    ParamCapacity = 1
    ParamBulk = 1
    Bulk = 6
    MaxPending = 1
    Ops = {"SetSingleParameter", "SetAllParameters", "Rendering", "UpdateAllMappings", "UpdateSingleMapping", "TouchTarget"}
PROPERTIES
    FollowersEventuallyFollow
INVARIANTS
    TypeOK
    FlagsMatchParams
    ParamsReachMainProcessor
    FollowersKnowActiveLeads
    OnlyFirstHitCanBeStale
    GroupIsExclusive
CHECK_DEADLOCK FALSE
