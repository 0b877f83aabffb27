SPECIFICATION Spec
CONSTANTS
  Windows = {"cross"}
  BootActive = {}
INVARIANTS PirTracksPin
