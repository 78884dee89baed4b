SPECIFICATION BusySpec
CONSTANTS
    Mac = {a}
    Wifi = wifi
    Callers = {app}
    Kinds = {"note"}
    Exclusions <- Nobody
    Events = {"jam", "roam"}
    LowLimit = 1
    NormalLimit = 1
    HighLimit = 1
    FrameSlots = 1
    MaxInFlight = 1
    UnreachableAfter = 1
    ProbeInterval = 1
    StallTime = 2
    Backoff = 3
    HighWait = 1
    FrameWait = 1
    FlushWait = 1
    MaxConfirm = 1
    MaxPreempt = 1
PROPERTIES
    OnlyProbesToUnreachable
    QueueMoves
    DriverRecovers
    FoundAgain
