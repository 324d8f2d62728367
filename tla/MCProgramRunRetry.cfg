SPECIFICATION Spec
CONSTANTS
  Node = {1, 2, 3, 4, 5, 6, 7}
  None = None
  Programs <- MCRetryArc
  MaxSteps = 9
  Policies = {"stop-run", "continue-siblings"}
  MaxRestarts = 1
INVARIANT CompletedAtEnd
CHECK_DEADLOCK FALSE
