SPECIFICATION PropertySpec
CONSTANTS
  Users = {u1}
  Groups = {u1}
  Registered = {u1}
  Canonical <- MCCanonical
  NotHex = NotHex
  NotHexUsers = {}
  para1p = para1p
  para1s = para1s
  para2p = para2p
  para2s = para2s
  Primary <- MCPrimary
  Secondary <- MCSecondary
  Third = third
  AltThird = altthird
  NoPool = NoPool
  RandN = 1
  RandBits = 1
  MaxAttempts = 1
  Types = {"wg"}
  Statuses = {"active"}
  IPs = {ip1}
  Ulas = {ula1}
  Keys = {k1}
  Wg0 = wg0dev
  WgStates = {TRUE}
  Workers = {w1}
  MaxFaults = 1
  None = None
INVARIANT RecoveredAfterRestart
