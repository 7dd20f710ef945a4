SPECIFICATION Spec
CONSTANTS
  Users = {u1}
  Groups = {u1}
  Registered = {u1}
  Canonical <- MCCanonical
  NotHex = NotHex
  NotHexUsers = {}
  para1p = para1p
  para1s = para1s
  para2p = para2p
  para2s = para2s
  Primary <- MCPrimary
  Secondary <- MCSecondary
  Third = third
  AltThird = altthird
  NoPool = NoPool
  RandN = 1
  RandBits = 1
  MaxAttempts = 1
  Types = {"sit"}
  Statuses = {"active", "suspended"}
  IPs = {ip1}
  Ulas = {ula1}
  Keys = {k1}
  Wg0 = wg0dev
  WgStates = {FALSE}
  Workers = {w1, w2}
  MaxFaults = 1
  None = None
SYMMETRY Symmetry
INVARIANTS TypeOK MainPrefixesUnique SlotLimit CountersNotAhead NobodyWaits
PROPERTIES ImplementsRegistry EveryStepNearer
