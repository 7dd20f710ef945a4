SPECIFICATION PropertySpec
CONSTANTS
  Handlers = {w1, w2}
  Devices = {d1, d2}
  Networks = {n1, n2}
  Wg0Exists = TRUE
SYMMETRY Symmetry
INVARIANT StableTunnelsProtected
