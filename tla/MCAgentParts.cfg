SPECIFICATION Spec
CONSTANTS
  Scan = {1, 2}
  Thread = {1, 2, 3}
  NoThread = NoThread
  NoScan = NoScan
  MaxFaults = 1
  Turn = {1, 2}
  Process = {1, 2}
  Question = {1}
  Chat = Chat
  None = None
  IdleTicks = 1
  MaxPages = 2
  Path = {file}
  Absent = Absent
  Nothing = Nothing
  MaxTurns = 2
  MaxSends = 2
  MaxWrites = 2
  MaxPresses = 2
  MaxHolds = 1
  MaxFailures = 1
INVARIANTS
  TypesOK
  ScanEnds
  ThreadsServe
  TurnsYield
  HungIsIdle
  RewindIsExact
CHECK_DEADLOCK FALSE
