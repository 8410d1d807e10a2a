SPECIFICATION Spec
CONSTANTS
  Values = {TRUE, FALSE}
  None = None
  Delayed = {TRUE}
  Prompt = TRUE
  Consumers <- All
  MaxSends = 2
  MaxWire = 2
  MaxAccepts = 2
CHECK_DEADLOCK FALSE
PROPERTIES
  NeverBack
  ConvergesOnceSent
