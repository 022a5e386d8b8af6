SPECIFICATION Spec
CONSTANTS
  SpawnReq = {s1, s2}
  LockReq = {u1}
  Conn = {c1}
  Pid = {p1, p2, p3}
  NoPid = NoPid
  NoReq = NoReq
  NoConn = NoConn
  EnablePrefork = TRUE
  MaxCrashTime = 2
  Faults = {"fork", "pipe_write", "watcher", "app_info", "send", "cold"}
CONSTRAINT ServiceUp
ACTION_CONSTRAINT TwoRequests
SYMMETRY Symmetry
INVARIANTS
  ChildrenAccountedFor
  RefsBalanced
PROPERTIES
  KillOnlyUnreaped
  ImplementsContract
CHECK_DEADLOCK FALSE
