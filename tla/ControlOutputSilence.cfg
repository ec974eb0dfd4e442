CONSTANTS
  RcIterationsToChangeMode = 3
  RcIterationsToCenter = 2
  MaxIterationsWithoutReceive = 2
  Commands <- MCCommands
  Throttles <- MCThrottles
  Steerings <- MCSteerings
  HistoryBound = 7

SPECIFICATION Spec

INVARIANT EngineStopsWhenSilent
