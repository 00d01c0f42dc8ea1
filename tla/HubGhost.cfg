SPECIFICATION FairSpec
CONSTANTS
  User = {u1}
  Ticket = {t1}
  Conn = {c1}
  Worker = {w1}
  RegisterCap = 1
  UnregisterCap = 1
  InboundCap = 1
  SendBufSize = 1
  MaxInbound = 0
  MaxEvents = 0
  MaxBans = 1
  Run = Run
  Nil = Nil
PROPERTIES GoneConnectionsLeave
CHECK_DEADLOCK FALSE
