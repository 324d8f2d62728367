SPECIFICATION Spec
CONSTANTS
  MaxRuns = 2
  MaxStep = 2
  Caps = {3}
  Strikes = 2
  ParksInARow = 1
  HollowTurns = 2
  NarrationTurns = 2
  ProviderFailures = 2
  PlanTurns = 2
  NoProgressTurns = 2
PROPERTY TickedStaysTicked
CHECK_DEADLOCK FALSE
