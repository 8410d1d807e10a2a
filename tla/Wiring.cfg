SPECIFICATION Spec
CONSTANTS
  lamp = lamp
  button = button
  meter = meter
  door = door
  Slots = {lamp}
  Signals = {button, door, meter}
  TypeOf <- Types
  Operators = {operator}
  NoSignal = NoSignal
  Unregistered = Unregistered
  NoCall = NoCall
  MaxStream = 2
  Stops <- Stopping
  MaxSocks = 1
INVARIANTS
  ReceivesOwnType
  ToldWhatIsStored
PROPERTY Joins
