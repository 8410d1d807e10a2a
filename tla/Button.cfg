SPECIFICATION Spec
CONSTANTS
  None = None
  Values = {TRUE, FALSE}
  Deployments <- FourDeployments
  MaxTasks = 2
CHECK_DEADLOCK FALSE
INVARIANT AwaitsAnAnswer
PROPERTIES
  OneEventPerPress
  HeardIsAnswered
  ShowsLast
