SPECIFICATION Spec
CONSTANTS
    p1 = p1
    p2 = p2
    note = note
    controller = controller
    first = first
    second = second
    Pins = {p1, p2}
    Watched = p1
    Configs <- Mappings
    Flags = {loopback}
    Firmwares <- Builds
    Macs = {a, b}
    MaxPeers = 1
    MaxTears = 1
    Absent = Absent
    Unknown = Unknown
    NoName = NoName
    NoFirmware = NoFirmware
SYMMETRY Symmetry
INVARIANTS
    RestartChangesNothing
    NameIsOfThisFirmware
    
    StoredIsLive
PROPERTIES
    OthersSurvive
