CONSTANTS
  c1 = c1
  c2 = c2
  Conn = {c1, c2}
  Server = Server
  Null = Null
  Fails = {"pipe", "fork", "pidfd", "throw", "spurious"}
  MaxRounds <- Twice
SPECIFICATION Spec
INVARIANTS
  TypeOK
  InputEnds
  Released
PROPERTIES
  HungUp
