SPECIFICATION Spec
CONSTANTS
  Node = {1, 2, 3, 4, 5, 6, 7}
  None = None
  Programs <- MCLoopDiamond
  MaxSteps = 9
  Policies = {"stop-run", "continue-siblings"}
  MaxRestarts = 1
PROPERTY NoSecondRun
CHECK_DEADLOCK FALSE
