CONSTANTS
  Frame = {f1, f2, f3, f4}
  Main = Main
  Null = Null
  Modes = {"await", "detach", "hold"}
SPECIFICATION Spec
INVARIANTS
  TypeOK
  NoDoubleDestroy
  WaiterServed
PROPERTIES
  FinalReleased
CHECK_DEADLOCK FALSE
