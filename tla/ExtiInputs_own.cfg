SPECIFICATION Spec
CONSTANTS
  Windows = {"own"}
  BootActive = {}
INVARIANTS ButtonTracksPin
