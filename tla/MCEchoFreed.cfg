CONSTANTS
  c1 = c1
  c2 = c2
  Conn = {c1}
  Acceptor = Acceptor
  Desc <- OwnDesc
  Listen <- OwnListen
  Null = Null
  Lost = Lost
  MaxEvents = 2
  Home <- OwnHome
  Payload <- Pair
  Reply <- Pair
  Faults <- HalfShut
  EchoCmd = FALSE
  SendCap = 1
  SizeMod = 8
  MaxLoops = 1
SPECIFICATION Spec
INVARIANTS
  Sound
CHECK_DEADLOCK FALSE
