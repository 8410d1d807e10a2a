SPECIFICATION Spec
CONSTANTS
  none = none
  NoRatio = none
  Ratios <- Reverse
  StartRatio = 100
  MinSpeed = 300
  MaxSpeed = 40000
  FreeBits = {"quick"}
INVARIANTS
  SpeedFollowsRatio
PROPERTIES
  StopsWhenTold
  RestsInDeadBand
  RunsWhenTold
  LeavesFault
