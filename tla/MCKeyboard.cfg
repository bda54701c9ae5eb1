SPECIFICATION Spec
CONSTANTS
  Keys <- MCKeys
  LockKey = "caps"
  LevelKey = "shift"
  Sym <- MCSym
  F12 = "f12"
  Slots = 5
  Extended = TRUE
  LockHeld = FALSE
INVARIANTS
  TypeOK
  KeysAgree
  LocksAgree
PROPERTIES
  F12Toggles
