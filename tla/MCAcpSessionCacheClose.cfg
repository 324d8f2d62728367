CONSTANTS
  t1 = t1
  t2 = t2
  t3 = t3
  k1 = k1
  k2 = k2
  c1 = c1
  None = None
  Turn = {t1, t2, t3}
  Key = {k1, k2}
  Cwd = {c1}
  Asks <- MCAsks
  Entry = {1, 2}
  MaxSessions = 1
SPECIFICATION Spec
INVARIANT NoAgentAfterClose
CHECK_DEADLOCK FALSE
