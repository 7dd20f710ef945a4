SPECIFICATION PropertySpec
CONSTANTS
  Users = {u1, u2}
  Groups = {u1, u2}
  Registered = {u1, u2}
  Canonical <- MCCanonical
  NotHex = NotHex
  NotHexUsers = {}
  para1p = para1p
  para1s = para1s
  para2p = para2p
  para2s = para2s
  Primary <- MCPrimary
  Secondary <- MCSecondary
  Third = third
  AltThird = altthird
  NoPool = NoPool
  RandN = 1
  RandBits = 1
  MaxAttempts = 1
  Types = {"wg"}
  Statuses = {"active"}
  IPs = {ip1}
  Ulas = {ula1}
  Keys = {k1, k2}
  Wg0 = wg0dev
  WgStates = {TRUE, FALSE}
  Workers = {w1}
  MaxFaults = 1
  None = None
SYMMETRY Symmetry
INVARIANTS RecoveredAfterReboot TrafficStaysWithUser
PROPERTY RecoveryDisturbsNothing
