SPECIFICATION FairSpec
CONSTANTS
  Node = {1, 2, 3, 4, 5, 6, 7}
  None = None
  Programs <- MCPrograms
  MaxSteps = 9
  Policies = {"stop-run", "continue-siblings"}
  MaxRestarts = 1
INVARIANTS TypeOK PaidIsSaved CompletedClean
PROPERTIES NoSecondRun StopStopsSpend NoHang
CHECK_DEADLOCK FALSE
