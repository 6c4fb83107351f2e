SPECIFICATION EvalSpec
CONSTANTS
  Cases <- MCCases
  MaxStack = 3
  MaxFrames = 4
  MaxBindings = 3
  UnaryOf <- UnaryAnswer
  BinaryOf <- BinaryAnswer
  IntBits = 2
  Externs <- MCExterns
  ExternOf <- MCExternOf
  MatchOf <- MCMatchOf
  Ample = 9
CHECK_DEADLOCK FALSE
INVARIANTS NamedClassesAreRefused
