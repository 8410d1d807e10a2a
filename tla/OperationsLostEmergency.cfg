SPECIFICATION Spec
CONSTANTS
  Sources <- RunAndEmergency
  Reasons = {}
  Delays = {TRUE}
  MaxFiring = 1
PROPERTY EmergencyReached
