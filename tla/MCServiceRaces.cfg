SPECIFICATION Spec
CONSTANTS
  SpawnReq = {s1, s2}
  LockReq = {u1}
  Conn = {c1}
  Pid = {p1, p2, p3}
  NoPid = NoPid
  NoReq = NoReq
  NoConn = NoConn
  EnablePrefork = TRUE
  MaxCrashTime = 2
  Faults = {}
CONSTRAINT ServiceUp
SYMMETRY Symmetry
INVARIANTS
  TypeOK
  FdOwnership
  PidOwnedOnce
  AnsweredAtMostOnce
  NoDanglingConnection
  CrashCountExact
CHECK_DEADLOCK FALSE
