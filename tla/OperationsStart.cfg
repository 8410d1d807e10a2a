SPECIFICATION Spec
CONSTANTS
  Sources <- StartOnly
  Reasons = {"jam"}
  Delays = {TRUE, FALSE}
  MaxFiring = 1
PROPERTIES
  StartingEnds
  ImplementsFairModeMachine
