SPECIFICATION Spec
CONSTANTS
    Mac = {a}
    Wifi = wifi
    Callers = {app, wifi}
    Kinds = {"value", "off"}
    Exclusions <- Nobody
    Events = {"single", "flush", "jam", "initFails", "peers", "receive"}
    LowLimit = 1
    NormalLimit = 1
    HighLimit = 1
    FrameSlots = 1
    MaxInFlight = 1
    UnreachableAfter = 0
    ProbeInterval = 0
    StallTime = 1
    Backoff = 1
    HighWait = 1
    FrameWait = 1
    FlushWait = 1
    MaxConfirm = 9
    MaxPreempt = 1
INVARIANTS
    InFlightCounts
    NoLostWakeup
PROPERTIES
    RestartJustified
