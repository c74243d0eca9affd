CONSTANTS
  c1 = c1
  c2 = c2
  Conn = {c1}
  Acceptor = Acceptor
  Desc <- OwnDesc
  Listen <- OwnListen
  Null = Null
  Lost = Lost
  MaxEvents = 2
  Home <- OwnHome
  Payload <- Command
  Reply <- CommandReply
  Faults <- NoFaults
  EchoCmd = FALSE
  SendCap = 2
  SizeMod = 8
  MaxLoops = 1
SPECIFICATION Spec
INVARIANTS
  Reaped
CHECK_DEADLOCK FALSE
