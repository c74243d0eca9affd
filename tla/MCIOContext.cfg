CONSTANTS
  Desc = {d1, d2}
  Coro = {k1, k2}
  Null = Null
  Lost = Lost
  Flag = {"IN", "OUT"}
  MaxEvents = 2
SPECIFICATION Spec
SYMMETRY Symmetry
INVARIANTS
  TypeOK
  NoDangling
  Armed
  NoMissedWakeup
CHECK_DEADLOCK FALSE
