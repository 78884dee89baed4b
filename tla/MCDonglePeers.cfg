SPECIFICATION Spec
CONSTANTS
  Device = {d1, d2, d3, d4}
  MaxPeers = 3
  MaxRefusals = 2
  MaxResets = 2
SYMMETRY Symmetry
INVARIANTS MutesAreLive AckedComesBack
PROPERTY ReplaceKeepsOne
