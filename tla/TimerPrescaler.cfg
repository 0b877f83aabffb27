SPECIFICATION Spec
CONSTANTS
  Range = 16
  CyclesPerMs = 3
  Times <- MCTimes
INVARIANTS Accurate Finest
