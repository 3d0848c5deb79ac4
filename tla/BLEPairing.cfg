CONSTANTS
  Devices = {"t", "u"}
  Trusted = {"t"}
  Requests <- EachKind
  Own <- At24
  Slots = 2
  MaxObjs = 2
  MaxPINs = 1
  MaxTries = 2
  CodeAttempts = 2
  Losses = 1
SPECIFICATION BLESpec
INVARIANTS AttemptsAreHeld OnePeerPerPIN AcceptedWereTold
CHECK_DEADLOCK FALSE
