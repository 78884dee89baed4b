SPECIFICATION Spec
CONSTANTS
  Devices = {d1, d2, d3}
  Slots = {1, 2}
  Timeout = 1
  ClockMod = 5
  Lengths = {481, 1025}
  Foreign <- OtherPrograms
  MaxMsgs = 3
SYMMETRY Symmetric
PROPERTIES IntactIsDelivered MixNeedsTwoLosses LateNeverJoins
CHECK_DEADLOCK FALSE
