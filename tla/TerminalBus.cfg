SPECIFICATION TerminalSpec
CONSTANTS
  i = i
  j = j
  o = o
  x = x
  None = None
  Kinds <- TheKinds
  Implemented <- TheKnown
  Speaking <- TheInputs
  Inputs <- TheInputs
  Outputs <- TheOutputs
  Longer <- TheLonger
  Lines <- TheLines
  MaxDevices = 2
  MinCount = 1
  InitLimit = 1
  StableCount = 2
  TryLimit = 2
  FailLimit = 2
  Errors = TRUE
CHECK_DEADLOCK FALSE
INVARIANTS
  DevicesMatch
  OffUntilTold
PROPERTIES
  RestartsForCause
  Recovers
  InputsReported
  OutputsWritten
