SPECIFICATION Spec
CONSTANTS
    Mac = {a, b}
    Callers = {loop}
    Sender = sender
    MaxPeers = 2
    DriverSlots = 2
    MaxDiscovered = 2
    Discovery = FALSE
    Restarts = "anytime"
INVARIANTS
    ListMatchesDriver
