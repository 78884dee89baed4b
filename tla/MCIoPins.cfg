SPECIFICATION PinSpec
CONSTANTS
    Modes = {"switch", "analog", "touch"}
    Debounce = 4
    MinInterval = 5
    MaxGap = 3
    AdcMax = 12
    SpikeLimit = 3
    SpikeConfirm = 3
    MidiMax = 6
    Snap = 1
    Touches = {20, 22, 26}
    MinPeakPct = 5
    Thresholds = {0, 10, 30}
    CrossTuning = FALSE
INVARIANTS
    BouncesAreOnePress
PROPERTIES
    SettlesOnce
    RestIsSent
