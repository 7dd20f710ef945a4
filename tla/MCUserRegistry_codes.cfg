SPECIFICATION Spec
CONSTANTS
  Accounts = {a1, a2, a3, a4, a5}
  Codes = {c1, c2, c3, c4}
  NoCode = NoCode
SYMMETRY Symmetry
INVARIANTS CodesNeverReused OneCodeEach
CHECK_DEADLOCK FALSE
