SPECIFICATION SystemSpec
CONSTANTS
  Durations <- MCDurations
  Table <- PresenceFirst
  OpeningClosing = 2
  Inactivity = 3
  ResetPeriod = 2
  MaxStall = 1
  Horizon = 4
  Wrap = 2
INVARIANTS TypeOK NoEarlyTimeout NoLateTimeout TimeoutOnTime
PROPERTIES Expires ImplementsOneShot ImplementsAtomicMotor ClosesOnRegisters
