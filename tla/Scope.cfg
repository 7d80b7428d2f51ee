SPECIFICATION Spec
CONSTANTS
    Channels = {1}
    Widths = {1, 2}
    Capacity = 13
    FrameBudget = 7
    RequestDepth = 1
    IndexMod = 2
    Rooms = {13}
    MaxStarts = 2
    MaxSamples = 2
    MaxSessions = 3
INVARIANTS StreamExact ReadFits
PROPERTY LeftoversClear
