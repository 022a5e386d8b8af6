SPECIFICATION Spec
CONSTANTS
  SpawnReq = {s1}
  LockReq = {u1}
  Conn = {c1}
  Pid = {p1, p2}
  NoPid = NoPid
  NoReq = NoReq
  NoConn = NoConn
  EnablePrefork = TRUE
  MaxCrashTime = 2
  Faults = {}
CONSTRAINT ServiceUp
SYMMETRY Symmetry
INVARIANTS
  MessageOwned
CHECK_DEADLOCK FALSE
