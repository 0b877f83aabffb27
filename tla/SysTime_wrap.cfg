SPECIFICATION SafetySpec
CONSTANTS
  Delays <- MCDelays
  Wrap = 8
  Horizon = 10
INVARIANTS UntilOnTime
