SPECIFICATION Spec
CONSTANTS
  Path = {p, q}
  Log = {l, m}
  Gone = Gone
  NoWrite = NoWrite
  Tries = 1
  KeepLines = 1
  MaxChanges = 3
  MaxBusy = 1
  MaxLosses = 1
  MaxDeletes = 1
  MaxChain = 1
  Client = {c}
  MaxEvents = 4
  MaxCuts = 3
  File = {1, 2}
  Content <- Contents
  Absent = Absent
  MaxCheckpoints = 1
  MaxCaptures = 2
  Batch = {a, b}
  Person = Person
  Nobody = Nobody
  MaxEdits = 1
  Call = {x, y, z}
  Server = {s, t}
  Database = Database
  NoServer = NoServer
  NoRow = NoRow
  Limit = 1
  MaxDay = 1
  MaxUnheard = 1
  Request = {u, v, w}
  Backstop = 1
  MaxMonth = 1
  MaxFaults = 1
SYMMETRY Symmetry
INVARIANTS
  TypesOK
  ChangesSurvive
  LogWhole
  NothingStranded
  CursorMeansSeen
  BatchesSerial
  LocksMoveOn
  RestoreWorks
  ServedWithinCap
  QuotaOnlyForAnswers
  SpendIsBounded
PROPERTY KeepsPromise
CHECK_DEADLOCK FALSE
