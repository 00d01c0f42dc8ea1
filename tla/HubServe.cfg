SPECIFICATION Spec
CONSTANTS
  User = {u1, u2}
  Ticket = {t1, t2}
  Conn = {c1, c2}
  Worker = {w1}
  RegisterCap = 1
  UnregisterCap = 1
  InboundCap = 1
  SendBufSize = 1
  MaxInbound = 1
  MaxEvents = 2
  MaxBans = 1
  Run = Run
  Nil = Nil
SYMMETRY Symmetry
INVARIANTS TypeOK TicketOpensOneConnection LiveSessionReachable
CHECK_DEADLOCK FALSE
