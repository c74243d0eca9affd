CONSTANTS
  c1 = c1
  c2 = c2
  Conn = {c1}
  Acceptor = Acceptor
  Desc <- OwnDesc
  Listen <- OwnListen
  Null = Null
  Lost = Lost
  MaxEvents = 2
  Home <- OwnHome
  Payload <- Line
  Reply <- LineReply
  Faults <- NoFaults
  EchoCmd = TRUE
  SendCap = 2
  SizeMod = 8
  MaxLoops = 1
SPECIFICATION Spec
PROPERTIES
  Served
CHECK_DEADLOCK FALSE
