SPECIFICATION Spec
CONSTANTS
  none = none
  None = none
  Capacity = 3
  Load = 5000
  StartCalibration = 4000
  MaxTare = 16
  Terminals <- FiveTerminals
INVARIANTS
  SignalIsMiddle
PROPERTIES
  TareZeroes
  ZeroZeroes
  CalibrationWeighs
  ShowsMass
  ShareFollows
