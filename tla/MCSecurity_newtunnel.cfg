SPECIFICATION PropertySpec
CONSTANTS
  Handlers = {w1, w2}
  Devices = {d1, d2}
  Networks = {}
  Wg0Exists = FALSE
SYMMETRY Symmetry
INVARIANT NewTunnelsProtected
