SPECIFICATION FairSpec
CONSTANTS
  MaxRuns = 2
  MaxStep = 2
  Caps = {1, 3}
  Strikes = 2
  ParksInARow = 2
  HollowTurns = 2
  NarrationTurns = 2
  ProviderFailures = 2
  PlanTurns = 2
  NoProgressTurns = 2
INVARIANTS
  TypeOK
  CapHolds
  NoPhantomRun
  LiveAgentHasLease
PROPERTIES
  TurnsOnlyForItsRun
  ParkedOnlyAfterAttempts
  StopSurvivesAudit
  EveryRunEnds
CHECK_DEADLOCK FALSE
