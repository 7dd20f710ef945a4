SPECIFICATION Spec
CONSTANTS
  Links = {sit1, sit2}
  Peers = {wg1}
  NoTunnel = NoTunnel
  Interface = TRUE
  MaxFaults = 3
INVARIANTS StartupTypeOK WireGuardReadyFirst RunningProtected
PROPERTY ServiceComesUp
CHECK_DEADLOCK FALSE
