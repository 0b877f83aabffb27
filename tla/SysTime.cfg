SPECIFICATION Spec
CONSTANTS
  Delays <- MCDelays
  Wrap = 8
  Horizon = 10
INVARIANTS UntilOnTimeBeforeWrap
PROPERTIES DelayOnTime Returns
