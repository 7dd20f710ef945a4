SPECIFICATION PropertyLiveSpec
CONSTANTS
  Users = {u1, u2}
  Groups = {u1}
  Registered = {u1}
  Canonical <- MCCanonical
  NotHex = NotHex
  NotHexUsers = {u2}
  para1p = para1p
  para1s = para1s
  para2p = para2p
  para2s = para2s
  Primary <- MCPrimary
  Secondary <- MCSecondary
  Third = third
  AltThird = altthird
  NoPool = NoPool
  RandN = 1
  RandBits = 1
  MaxAttempts = 1
  Types = {"sit"}
  Statuses = {"active"}
  IPs = {ip1}
  Ulas = {ula1}
  Keys = {k1}
  Wg0 = wg0dev
  WgStates = {FALSE}
  Workers = {w1}
  MaxFaults = 2
  None = None
INVARIANT RecoveredAfterReboot
PROPERTIES RecoveryDisturbsNothing RecoveryEnds
