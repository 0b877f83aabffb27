SPECIFICATION Spec
CONSTANTS
  Windows = {}
  BootActive = {"pir"}
PROPERTIES SteadyLevelIsSeen
