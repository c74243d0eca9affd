CONSTANTS
  Frame = {f1, f2, f3}
  Main = Main
  Null = Null
  Modes = {"await", "detach", "hold", "resume"}
SPECIFICATION Spec
SYMMETRY Symmetry
INVARIANTS
  NoDoubleDestroy
CHECK_DEADLOCK FALSE
