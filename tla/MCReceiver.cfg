SPECIFICATION FairSpec
CONSTANTS
  Header = 2
  Body = {0, 1, 2}
  MaxMsgs = 2
  Kinds = {"spawn", "refused", "observe", "other", "bad_header", "bad_tlv", "denied"}
INVARIANTS
  TypeOK
  NothingDropped
  TimerGuardsIncomplete
  FdsReachTheirMessage
PROPERTIES
  HalfMessageEnds
CHECK_DEADLOCK FALSE
