SPECIFICATION Spec
CONSTANTS
  Port <- MCPort
  Pin <- MCPin
INVARIANTS TypeOK Configured DebugPortKept EarlyEdgesSeen
