SPECIFICATION MCLoadSpec
CONSTANTS
  r = r  u = u  k = k  l = l  v = v  K1 = K1  K2 = K2  NoKey = NoKey
  Text <- MCText
  WellKnown <- MCWellKnown
  Offset = 3
  Key <- MCKey
  MaxBlocks = 3
  Tokens <- MCTokens
  Limits <- MCLimits
  Tables <- BlockTables
  Seed <- TokenSeed
INVARIANTS LoadInv OneSymbolOneText LoadsWhatIsStated RefusesForCause
