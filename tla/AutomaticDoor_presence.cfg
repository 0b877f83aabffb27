SPECIFICATION Spec
CONSTANTS
  Table <- PresenceFirst
  OpeningClosing = 2
  Inactivity = 3
  Horizon = 4
  Wrap = 4
INVARIANTS TypeOK OtherColourDark BlinksWhileMoving NoLostToggle Announced WayOut
PROPERTIES ImplementsDoor HeldOpen ClosesWhenQuiet PresenceOpens
