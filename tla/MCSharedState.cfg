CONSTANTS
  Input <- Strings
  Before <- Outputs
  BufSize = 3
  MaxLen = 4
  EchoOutput <- Echoes
SPECIFICATION Spec
INVARIANTS
  SplitExact
  MergeExact
PROPERTIES
  MergeReturns
