SPECIFICATION Spec
CONSTANTS
    SeqCount = 2
    MaxData = 2
    SOP = 5
    Payloads <- PayloadSet
    Requests <- RequestSet
    Noise = {2, 5}
    MaxFrames = 3
    MaxFaults = 1
    MaxSessions = 2
INVARIANT RecoversAfterTimeout
