SPECIFICATION SystemSpec
CONSTANTS
  Table <- TimeoutFirst
  OpeningClosing = 1
  Inactivity = 2
  Horizon = 2
  Wrap = 1
  Windows = {"cross", "own"}
  BootActive = {"button", "pir"}
INVARIANTS FlagsShowPins
PROPERTIES ImplementsAtomicInputs SteadyLevelReachesFlag ScanSeesHeldPin HeldPinOpens QuietPinsClose
