SPECIFICATION AuthSpec
CONSTANTS
  p = p  q = q  a = a  b = b  x = x  y = y
  Name <- MCName
  Value <- MCValue
  Var <- MCVar
  MaxBlocks = 3
  MaxBody = 2
  MaxBindings = 2
  Worlds <- MCWorlds
  FactCap = 8
  TermCap = 6
  DefaultRounds = 5
  MaxRuns = 2
INVARIANTS AuthKnows RightlyDecided ReportsPlaceTogether OnlyNarrows
PROPERTIES Decides
