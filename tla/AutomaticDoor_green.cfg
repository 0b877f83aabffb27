SPECIFICATION SafetySpec
CONSTANTS
  Table <- PresenceFirst
  OpeningClosing = 1
  Inactivity = 2
  Horizon = 2
  Wrap = 2
INVARIANTS GreenSteadyWhenOpen
