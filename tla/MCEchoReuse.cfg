CONSTANTS
  c1 = c1
  c2 = c2
  Conn = {c1, c2}
  Acceptor = Acceptor
  Desc <- PoolDesc
  Listen <- PoolListen
  Null = Null
  Lost = Lost
  MaxEvents = 3
  Home <- PoolHome
  Payload <- Words
  Reply <- Words
  Faults <- NoFaults
  EchoCmd = FALSE
  SendCap = 2
  SizeMod = 8
  MaxLoops = 1
SPECIFICATION Spec
INVARIANTS
  NoSpuriousWakeup
CHECK_DEADLOCK FALSE
