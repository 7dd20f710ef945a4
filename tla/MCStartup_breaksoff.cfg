SPECIFICATION Spec
CONSTANTS
  Links = {sit1, sit2}
  Peers = {wg1}
  NoTunnel = NoTunnel
  Interface = TRUE
  MaxFaults = 1
INVARIANT NoneLeftOut
CHECK_DEADLOCK FALSE
