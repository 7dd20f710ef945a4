SPECIFICATION CSpec
CONSTANTS
  Users = {u1}
  Groups = {u1}
  Registered = {u1}
  Canonical <- MCCanonical
  NotHex = NotHex
  para1p = para1p
  para1s = para1s
  para2p = para2p
  para2s = para2s
  Primary <- MCPrimary
  Secondary <- MCSecondary
  Third = third
  AltThird = altthird
  NoPool = NoPool
  RandN = 1
  RandBits = 1
  MaxAttempts = 1
  Types = {"wg"}
  Statuses = {"active"}
  IPs = {ip1}
  Ulas = {ula1}
  Keys = {k1, k2, k3}
  Wg0 = wg0dev
  WgStates = {TRUE}
  Workers = {w1, w2}
  MaxFaults = 1
  None = None
  ServerIP = serverip
  ServerKey = serverkey
  MaxTroubled = 1
SYMMETRY Symmetry
INVARIANTS ConfiguredAsStored NothingLeftBehind EndsAgree
CONSTRAINT FewTroubled
