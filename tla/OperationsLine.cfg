SPECIFICATION Safety
CONSTANTS
  Sources <- Line
  Reasons = {"jam"}
  Delays = {TRUE}
  MaxFiring = 1
INVARIANTS
  NoLeakedDelay
  ReasonOnlyForStop
  LevelEventsCurrent
  OutputsMirrorMode
PROPERTY ImplementsModeMachine
