CONSTANTS
  c1 = c1
  c2 = c2
  Conn = {c1, c2}
  Acceptor = Acceptor
  Desc <- OwnDesc
  Listen <- OwnListen
  Null = Null
  Lost = Lost
  MaxEvents = 2
  Home <- WriteHome
  Payload <- Command
  Reply <- CommandReply
  Faults <- Rude
  EchoCmd = FALSE
  SendCap = 1
  SizeMod = 8
  MaxLoops = 1
SPECIFICATION Spec
PROPERTIES
  PoliteServed
CHECK_DEADLOCK FALSE
