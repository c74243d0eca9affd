CONSTANTS
  c1 = c1
  c2 = c2
  Conn = {c1, c2}
  Acceptor = Acceptor
  Desc <- HeapDesc
  Listen <- OwnListen
  Null = Null
  Lost = Lost
  MaxEvents = 3
  Home <- HeapHome
  Payload <- Plain
  Reply <- PlainReply
  Faults <- NoFaults
  EchoCmd = TRUE
  SendCap = 2
  SizeMod = 8
  MaxLoops = 1
SPECIFICATION Spec
INVARIANTS
  Reaped
  OnlyReuseMisleads
  Sound
PROPERTIES
  Answers
