SPECIFICATION Spec
CONSTANTS
    Calls <- TargetCalls
    ShortSlots = 8
    FrameSlots = 1
    FrameBytes = 4
    SeqRange = 18
INVARIANTS
    ReservedSlots
    OneWaitingValue
PROPERTIES
    ImplementsFifo
