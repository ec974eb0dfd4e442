CONSTANTS
  RcIterationsToChangeMode = 3
  RcIterationsToCenter = 2
  MaxIterationsWithoutReceive = 2
  Commands <- MCCommands
  Throttles <- MCThrottles
  Steerings <- MCSteerings
  HistoryBound = 0

SPECIFICATION Spec

INVARIANT TypeOK
INVARIANT StoppedStaysStopped
INVARIANT SwitchNeedsGesture
PROPERTY DeadMansSwitch
PROPERTY LostLinkStops
PROPERTY CommandIsOutput
