SPECIFICATION Spec
CONSTANTS
  t1 = t1
  t2 = t2
  Thread = {t1, t2}
  Conn = {c1, c2}
  None = None
  MaxRetry = 2
  MaxFaults = 2
  Callers <- MCCallers
  BlockSize = 4
  HdrLen = 1
  MaxTotal = 9
INVARIANTS OneMessagePerConnection OkIsOwnApp AppsAccountedFor BlocksAreTheMessage
PROPERTY EveryCallReturns
CHECK_DEADLOCK FALSE
