SPECIFICATION WalkSpec
CONSTANTS
  p = p  q = q  a = a  b = b  x = x  y = y
  Name <- MCName
  Value <- MCValue
  Var <- MCVar
  MaxBlocks = 3
  MaxBody = 3
  MaxBindings = 2
  MaxArity = 2
  Rules <- MCRules
  FactBases <- MCFactBases
  Budgets = {3, 60}
  Width = 2
  Base = 2
INVARIANTS WalkKnows AnswerHolds
PROPERTIES YieldsEveryMatch BudgetBoundsWalk WalkEnds
