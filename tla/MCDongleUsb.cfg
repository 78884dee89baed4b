SPECIFICATION Spec
CONSTANTS
  Capacity = 2
  StaleMs = 1
  Messages <- AllMessages
  InboxSize = 1
  SysExSlots = 2
  SysExPackets = 3
  FifoSize = 1
  Budget = 1
  EndExtra = 1
  Backoff = 3
  Loads <- MixedLoads
INVARIANTS OneSysExAtATime
PROPERTIES NoStuckNotes ValuesArrive LeftOpenByStall NotesEnd
