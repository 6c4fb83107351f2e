SPECIFICATION EngineSpec
CONSTANTS
  p = p  q = q  a = a  b = b  x = x  y = y
  Name <- MCName
  Value <- MCValue
  Var <- MCVar
  MaxBlocks = 3
  MaxBody = 2
  MaxBindings = 2
  Worlds <- MCWorlds
  FactCap = 8
  TermCap = 6
  DefaultRounds = 5
  MaxRuns = 2
INVARIANTS EngineKnows BoundRulesFill NoEscalation TermsAccounted
PROPERTIES InfersConsequences RunReturns
