\* Every command and call, with one failed write anywhere.
SPECIFICATION Spec
CONSTANTS
  kMaxSlot = 2
  Commands = {"c", "r", "d", "u", "m", "w"}
  OtherCalls = {"joystick", "key"}
  MaxDowns = 3
  MaxLost = 1
INVARIANTS
  TypeOK
  CountCoversContacts
  TrackingIdsDistinct
  ReaderInStep
CHECK_DEADLOCK FALSE
