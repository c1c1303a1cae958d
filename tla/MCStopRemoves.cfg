SPECIFICATION Spec
CONSTANTS
    midi = midi
    osc = osc
    NoSource = NoSource
    Mappings = {1, 2, 3, 4, 5, 6, 7, 8, 9, 10, 11, 12}
    Compartment <- Alternating
    Initial = {1}
    Sources = {midi, osc}
    OscSources = {osc}
    Futures = {1, 2, 3, 4, 5}
    MaxOps = 3
    MaxEvents = 3
PROPERTIES
    StoppingRemovesLastAdded
CHECK_DEADLOCK FALSE
