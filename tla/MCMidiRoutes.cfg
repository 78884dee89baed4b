SPECIFICATION RoutesSpec
CONSTANTS
    Plain = {"plain"}
    Mutable = {"plain", "client"}
    Originals <- EveryKind
    MaxSends = 1
    MaxEchoes = 2
CHECK_DEADLOCK FALSE
INVARIANTS SameMeaning EveryEndOnce
